---------------------------- MODULE Spec2Model ----------------------------
(***************************************************************************)
(* The Terraria world-file scan of Terraria-Pyramid-tools:                 *)
(*   correct_parser.parse_world   the decoder that collects the            *)
(*                                 coordinates of Sandstone Brick (151),   *)
(*   correct_parser __main__ and check_and_rename.check_and_rename_world   *)
(*                                 its two callers,                        *)
(*   analyze_tiles.analyze_tiles  the second decoder of the same format.   *)
(* A file is a sequence of bytes; the cursor is the offset `pos` into it.  *)
(* Every handler step of the Python code is one action.                    *)
(***************************************************************************)
EXTENDS Integers, Sequences, FiniteSets, TLC

(***************************************************************************)
(* Bounds of the fixtures the model is run on.                             *)
(***************************************************************************)
MaxCells == 3
MaxWidth == 2
MaxHeight == 2
\* generate_world calls followed in one execute_strategy
MaxCalls == 4
\* largest total_count, pyramid_target and max_attempts of a strategy
MaxParam == 3
\* longest string handed to a validator
MaxStrLen == 3

(***************************************************************************)
(* Program constants.                                                      *)
(***************************************************************************)
SANDSTONE_BRICK == 151

None == "None"

Min(a, b) == IF a < b THEN a ELSE b

(***************************************************************************)
(* Python's integer operators on non-negative operands.                    *)
(***************************************************************************)
RECURSIVE BitAnd(_, _)
BitAnd(a, b) ==
    IF a = 0 \/ b = 0 THEN 0
    ELSE (a % 2) * (b % 2) + 2 * BitAnd(a \div 2, b \div 2)

RECURSIVE BitOr(_, _)
BitOr(a, b) ==
    IF a = 0 THEN b
    ELSE IF b = 0 THEN a
    ELSE (IF (a % 2) + (b % 2) > 0 THEN 1 ELSE 0) + 2 * BitOr(a \div 2, b \div 2)

RECURSIVE Pow2(_)
Pow2(n) == IF n = 0 THEN 1 ELSE 2 * Pow2(n - 1)

ShiftLeft(a, n) == a * Pow2(n)

ShiftRight(a, n) == a \div Pow2(n)

(***************************************************************************)
(* struct.unpack of a full-width little-endian buffer.                     *)
(***************************************************************************)
RECURSIVE LEValue(_)
LEValue(s) == IF s = <<>> THEN 0 ELSE Head(s) + 256 * LEValue(Tail(s))

\* "<B", "<H": unsigned
UnpackUnsigned(s) == LEValue(s)

\* "<h", "<i": two's complement; the top byte carries the sign
UnpackSigned(s) ==
    LET n   == Len(s)
        top == s[n]
        low == LEValue(SubSeq(s, 1, n - 1))
    IN  low + (IF top >= 128 THEN top - 256 ELSE top) * Pow2(8 * (n - 1))


(***************************************************************************)
(* Fixtures: the world files the decoders are run on.  A fixture is laid   *)
(* out as the format lays a file out: version, magic block, section        *)
(* pointers, frame-important table, header section, tile stream.           *)
(***************************************************************************)
\* n bytes of v, little-endian, two's complement
LEBytes(v, n) == [i \in 1..n |-> (v \div Pow2(8 * (i - 1))) % 256]

\* one cell record of a fixture
\*   has/lo/hi/ext  tile present, low and high identifier byte, bit 5 of tileFlags
\*   wall           0 none, 1 wall byte, 2 wall byte and its extension
\*   liquid         bits 3-4 of activeFlags
\*   tcolor/wcolor  bits 3 and 4 of tileFlags2;  tf3  bit 0 of tileFlags2
\*   mode/count     bits 6-7 of activeFlags and the stored run count
Cell(has, lo, hi, ext, wall, liquid, tcolor, wcolor, tf3, mode, count) ==
    [has |-> has, lo |-> lo, hi |-> hi, ext |-> ext, wall |-> wall,
     liquid |-> liquid, tcolor |-> tcolor, wcolor |-> wcolor, tf3 |-> tf3,
     mode |-> mode, count |-> count]

\* a fixture names its cells <<shape, lo, hi>>
CellOf(code) ==
    LET lo == code[2]
        hi == code[3]
    IN  CASE code[1] = "air"   -> Cell(FALSE, 0, 0, FALSE, 0, 0, FALSE, FALSE, FALSE, 0, 0)
          [] code[1] = "air2"  -> Cell(FALSE, 0, 0, FALSE, 0, 0, FALSE, FALSE, FALSE, 1, 1)
          [] code[1] = "tile"  -> Cell(TRUE, lo, hi, FALSE, 0, 0, FALSE, FALSE, FALSE, 0, 0)
          [] code[1] = "tile2" -> Cell(TRUE, lo, hi, FALSE, 0, 0, FALSE, FALSE, FALSE, 1, 1)
          [] code[1] = "tile3" -> Cell(TRUE, lo, hi, FALSE, 0, 0, FALSE, FALSE, FALSE, 2, 2)
          [] code[1] = "ext"   -> Cell(TRUE, lo, hi, TRUE, 1, 0, FALSE, FALSE, FALSE, 0, 0)
          [] code[1] = "full"  -> Cell(TRUE, lo, hi, FALSE, 2, 1, TRUE, TRUE, TRUE, 3, 0)

CellId(c) == IF c.has THEN c.lo + (IF c.ext THEN 256 * c.hi ELSE 0) ELSE -1

CellRun(c) == IF c.mode \in {1, 2} THEN c.count + 1 ELSE 1

CellTileFlags2(c) ==
    (IF c.tf3 THEN 1 ELSE 0) + (IF c.tcolor THEN 8 ELSE 0) + (IF c.wcolor THEN 16 ELSE 0)

CellTileFlags(c) ==
    (IF CellTileFlags2(c) # 0 THEN 1 ELSE 0) + (IF c.ext THEN 32 ELSE 0)
    + (IF c.wall = 2 THEN 64 ELSE 0)

CellActiveFlags(c) ==
    (IF CellTileFlags(c) # 0 THEN 1 ELSE 0) + (IF c.has THEN 2 ELSE 0)
    + (IF c.wall > 0 THEN 4 ELSE 0) + 8 * c.liquid + 64 * c.mode

InSeq(v, s) == \E i \in 1..Len(s) : s[i] = v

EncodeCell(c, fi) ==
    <<CellActiveFlags(c)>>
    \o (IF CellTileFlags(c) # 0 THEN <<CellTileFlags(c)>> ELSE <<>>)
    \o (IF CellTileFlags2(c) # 0 THEN <<CellTileFlags2(c)>> ELSE <<>>)
    \o (IF c.tf3 THEN <<0>> ELSE <<>>)
    \o (IF c.has
        THEN <<c.lo>> \o (IF c.ext THEN <<c.hi>> ELSE <<>>)
             \o (IF InSeq(CellId(c), fi) THEN <<18, 0, 36, 0>> ELSE <<>>)
        ELSE <<>>)
    \o (IF c.wall > 0 THEN <<9>> \o (IF c.wall = 2 THEN <<1>> ELSE <<>>) ELSE <<>>)
    \o (IF c.liquid # 0 THEN <<255>> ELSE <<>>)
    \o (IF c.tcolor THEN <<5>> ELSE <<>>)
    \o (IF c.wcolor THEN <<6>> ELSE <<>>)
    \o (IF c.mode = 1 THEN <<c.count>>
        ELSE IF c.mode = 2 THEN LEBytes(c.count, 2) ELSE <<>>)

\* the bytes that follow the six chosen bytes of a raw record <<"raw", b1, ..., b6>>
RawFiller == <<2, 0, 3, 0, 4, 5, 6, 7, 8, 9>>

RECURSIVE EncodeCells(_, _)
EncodeCells(cs, fi) ==
    IF cs = <<>> THEN <<>>
    ELSE (IF Head(cs)[1] = "raw"
          THEN Tail(Head(cs)) \o RawFiller
          ELSE EncodeCell(CellOf(Head(cs)), fi)) \o EncodeCells(Tail(cs), fi)

RECURSIVE EncodeInt16s(_)
EncodeInt16s(vs) ==
    IF vs = <<>> THEN <<>> ELSE LEBytes(Head(vs), 2) \o EncodeInt16s(Tail(vs))

Repeat(b, n) == [i \in 1..n |-> b]

\* "relogic" with its last byte replaced by magicEnd, file type, revision, favourites
MagicBlock(fx) ==
    IF fx.version >= 135
    THEN <<114, 101, 108, 111, 103, 105, fx.magicEnd>> \o <<2>> \o LEBytes(1, 4)
         \o Repeat(0, 8)
    ELSE <<>>

HeaderSection(fx) ==
    <<fx.namelen>> \o Repeat(65, fx.namelen) \o <<fx.seedlen>> \o Repeat(66, fx.seedlen)
    \o Repeat(0, 8)
    \o (IF fx.version >= 179 THEN Repeat(7, 16) ELSE <<>>)
    \o Repeat(0, 20)
    \o LEBytes(fx.height, 4) \o LEBytes(fx.width, 4)

\* offset of the header section in the natural layout
HeaderStart(fx) ==
    4 + Len(MagicBlock(fx)) + 2 + 4 * fx.nsec + 2 + 2 * Len(fx.fi)

TilesStart(fx) == HeaderStart(fx) + Len(HeaderSection(fx))

FullLength(fx) == TilesStart(fx) + Len(EncodeCells(fx.cells, fx.fi))

\* the value written into a section pointer: the true offset, or one outside the file
Pointer(mode, natural, length) ==
    CASE mode = "ok"   -> natural
      [] mode = "neg"  -> -1
      [] mode = "eof"  -> length
      [] mode = "past" -> length + 5

SectionTable(fx) ==
    LET all == << Pointer(fx.hdrOff, HeaderStart(fx), FullLength(fx)),
                  Pointer(fx.tileOff, TilesStart(fx), FullLength(fx)),
                  FullLength(fx) >>
    IN  [i \in 1..fx.nsec |-> LEBytes(all[i], 4)]

RECURSIVE Flatten(_)
Flatten(ss) == IF ss = <<>> THEN <<>> ELSE Head(ss) \o Flatten(Tail(ss))

FileBytes(fx) ==
    LEBytes(fx.version, 4) \o MagicBlock(fx)
    \o LEBytes(fx.nsec, 2) \o Flatten(SectionTable(fx))
    \o LEBytes(Len(fx.fi), 2) \o EncodeInt16s(fx.fi)
    \o HeaderSection(fx)
    \o EncodeCells(fx.cells, fx.fi)

\* the file as stored: whole (cut = -1) or truncated to its first cut bytes
StoredBytes(fx) ==
    IF fx.cut < 0 THEN FileBytes(fx) ELSE SubSeq(FileBytes(fx), 1, fx.cut)


(***************************************************************************)
(* State.  The names are the Python locals of parse_world/analyze_tiles.   *)
(***************************************************************************)
VARIABLES
    fx,                    \* the fixture the file was made from (never read by the code)
    data,                  \* the bytes of the file on disk
    prefixed,              \* the file's name starts with "1 "
    renames,               \* number of os.rename calls made so far
    pc,                    \* position in the running function
    pos,                   \* f.tell()
    ops,                   \* every f.read and f.seek made so far, in order
    exc,                   \* the exception in flight, or None
    version,
    section_pointers,
    tile_frame_important,
    tiles_offset,
    max_tiles_x,
    max_tiles_y,
    x,
    y,
    sandstone_coords,
    tile_counts,
    decoded,               \* the cell records decoded so far, in order
    highest,               \* the caller's highest point, <<>> when it reports none
    retval,                \* check_and_rename_world's return value
    coords,                \* the caller's coords, bound when parse_world returned
    received,              \* parse_world returned a list to its caller
    run,                   \* 1 in the first scan of the file, 2 in the second
    first                  \* outcome of the first scan, <<>> before it ended

\* GenerationOrchestrator.execute_strategy and the GUI validators
VARIABLES
    strategy,              \* the GenerationStrategy passed to execute_strategy
    stats,                 \* GenerationStatistics
    results,               \* the list execute_strategy returns
    result,                \* the WorldGenerationResult of the last iteration
    epc,                   \* position in execute_strategy
    platform,              \* calls received by the platform adapter
    detector,              \* calls received by the pyramid detector
    validator,             \* the validator whose validate is called
    value,                 \* argument of validate
    outcome                \* what validate did: returned a value or raised

scanVars == <<fx, data, prefixed, renames, pc, pos, ops, exc, version, section_pointers,
          tile_frame_important, tiles_offset, max_tiles_x, max_tiles_y, x, y,
          sandstone_coords, tile_counts, decoded, highest, retval, coords, received,
          run, first>>

toolkitVars == <<strategy, stats, results, result, epc, platform, detector,
                 validator, value, outcome>>

vars == <<scanVars, toolkitVars>>

fileVars == <<fx, data>>

headerVars == <<version, section_pointers, tile_frame_important, tiles_offset,
                max_tiles_x, max_tiles_y>>

loopVars == <<x, y, sandstone_coords, tile_counts, decoded>>

callerVars == <<prefixed, renames, highest, retval, run, first>>

resultVars == <<coords, received>>

\* tile_type = None
NoTile == -1

StructError == "struct.error"
VersionError == "RuntimeError: World version too old (< 88)"
SectionError == "RuntimeError: No Tiles section pointer found"
SeekError == "OSError: [Errno 22] Invalid argument"
DecodeError == "UnicodeDecodeError"
IndexError == "IndexError: list index out of range"

(***************************************************************************)
(* The file object.  A cursor is [pos, ops, exc]; once exc is set the rest *)
(* of the statement sequence is skipped.                                   *)
(***************************************************************************)
Cursor == [pos |-> pos, ops |-> ops, exc |-> None]

\* number of bytes f.read(n) returns at offset p
Avail(p, n) == IF p >= Len(data) THEN 0 ELSE Min(n, Len(data) - p)

\* the bytes f.read(n) returns at offset p
BytesAt(p, n) == SubSeq(data, p + 1, p + Avail(p, n))

\* f.read(n); with unpack, struct.unpack of the result, which raises on a short buffer
FRead(c, n, unpack) ==
    IF c.exc # None THEN c
    ELSE LET got == Avail(c.pos, n)
             short == unpack /\ got < n
         IN  [pos |-> c.pos + got,
              ops |-> Append(c.ops, [op |-> "read", at |-> c.pos, n |-> n,
                                     got |-> got, raised |-> short]),
              exc |-> IF short THEN StructError ELSE None]

\* f.seek(offset): a negative offset raises OSError, any other is accepted
FSeek(c, offset) ==
    IF c.exc # None THEN c
    ELSE [pos |-> IF offset < 0 THEN c.pos ELSE offset,
          ops |-> Append(c.ops, [op |-> "seek", at |-> offset, n |-> 0,
                                 got |-> 0, raised |-> offset < 0]),
          exc |-> IF offset < 0 THEN SeekError ELSE None]

read_int32(c) == FRead(c, 4, TRUE)

read_int16(c) == FRead(c, 2, TRUE)

read_uint16(c) == FRead(c, 2, TRUE)

\* a byte read that hands back nothing at the end of the file instead of raising
read_byte_lenient(c) == FRead(c, 1, FALSE)

read_byte(c) == FRead(c, 1, TRUE)

\* the value a successful read_byte at offset p returns
ByteAt(p) == UnpackUnsigned(BytesAt(p, 1))

\* read_string: the length byte is unpacked, the body is a plain f.read(length)
read_string(c) ==
    LET c1 == read_byte(c)
    IN  IF c1.exc # None THEN c1
        ELSE IF ByteAt(c.pos) = 0 THEN c1
        ELSE FRead(c1, ByteAt(c.pos), FALSE)

\* for i in range(k): read one width-byte signed value; the values read
RECURSIVE ReadSigned(_, _, _)
ReadSigned(c, k, width) ==
    IF k <= 0 \/ c.exc # None THEN [c |-> c, vals |-> <<>>]
    ELSE LET c1 == FRead(c, width, TRUE)
         IN  IF c1.exc # None THEN [c |-> c1, vals |-> <<>>]
             ELSE LET rest == ReadSigned(c1, k - 1, width)
                  IN  [c |-> rest.c,
                       vals |-> <<UnpackSigned(BytesAt(c.pos, width))>> \o rest.vals]


\* the high byte shifted one bit short
CombineIdShift7(tile_type, high_byte) == BitOr(tile_type, ShiftLeft(high_byte, 7))

(***************************************************************************)
(* One cell record (the body of the while loop up to the run length).      *)
(* plain = TRUE is analyze_tiles, which reads the fields it discards with  *)
(* a bare f.read; parse_world unpacks every field.                         *)
(***************************************************************************)
\* tile_type | (high_byte << 8)
CombineId(tile_type, high_byte) == BitOr(tile_type, ShiftLeft(high_byte, 8))

\* the locals of one iteration before anything is read
NoRecord(c) ==
    [c |-> c, active_flags |-> 0, tile_flags |-> 0, tile_flags2 |-> 0,
     tile_flags3 |-> 0, tile_type |-> NoTile, num_tiles |-> 0]

\* active_flags = read_byte(f)
ReadActiveFlags(r) ==
    LET c1 == read_byte(r.c)
    IN  [r EXCEPT !.c = c1,
                  !.active_flags = IF c1.exc = None THEN ByteAt(r.c.pos) ELSE 0]

\* if active_flags & 0x01: tile_flags = read_byte(f)
ReadTileFlags(r) ==
    IF BitAnd(r.active_flags, 1) # 0
    THEN LET c1 == read_byte(r.c)
         IN  [r EXCEPT !.c = c1,
                       !.tile_flags = IF c1.exc = None THEN ByteAt(r.c.pos) ELSE 0]
    ELSE r

\* a decoder that reads tile_flags2 whenever tile_flags was read
ReadTileFlags2Always(r) ==
    IF BitAnd(r.active_flags, 1) # 0
    THEN LET c1 == read_byte(r.c)
         IN  [r EXCEPT !.c = c1,
                       !.tile_flags2 = IF c1.exc = None THEN ByteAt(r.c.pos) ELSE 0]
    ELSE r

\* if tile_flags & 0x01: tile_flags2 = read_byte(f)
ReadTileFlags2(r) ==
    IF BitAnd(r.tile_flags, 1) # 0
    THEN LET c1 == read_byte(r.c)
         IN  [r EXCEPT !.c = c1,
                       !.tile_flags2 = IF c1.exc = None THEN ByteAt(r.c.pos) ELSE 0]
    ELSE r

\* if tile_flags2 & 0x01: tile_flags3 = read_byte(f)
ReadTileFlags3(r) ==
    IF BitAnd(r.tile_flags2, 1) # 0
    THEN LET c1 == read_byte(r.c)
         IN  [r EXCEPT !.c = c1,
                       !.tile_flags3 = IF c1.exc = None THEN ByteAt(r.c.pos) ELSE 0]
    ELSE r

\* if active_flags & 0x02: tile_type = read_byte(f)
ReadTileType(r) ==
    IF BitAnd(r.active_flags, 2) # 0
    THEN LET c1 == read_byte(r.c)
         IN  [r EXCEPT !.c = c1,
                       !.tile_type = IF c1.exc = None THEN ByteAt(r.c.pos) ELSE NoTile]
    ELSE r

\* a decoder that consumes the high byte on bit 5 of tile_flags, tile or no tile
ReadHighByteNoTile(r) ==
    IF BitAnd(r.tile_flags, 32) # 0
    THEN LET c1 == read_byte(r.c)
         IN  [r EXCEPT !.c = c1,
                       !.tile_type = IF BitAnd(r.active_flags, 2) = 0 THEN NoTile
                                     ELSE IF c1.exc = None
                                     THEN CombineId(r.tile_type, ByteAt(r.c.pos))
                                     ELSE NoTile]
    ELSE r

\* if tile_flags & 0x20: high_byte = read_byte(f); tile_type = tile_type | (high_byte << 8)
ReadHighByte(r) ==
    IF BitAnd(r.active_flags, 2) # 0 /\ BitAnd(r.tile_flags, 32) # 0
    THEN LET c1 == read_byte(r.c)
         IN  [r EXCEPT !.c = c1,
                       !.tile_type = IF c1.exc = None
                                     THEN CombineId(r.tile_type, ByteAt(r.c.pos))
                                     ELSE NoTile]
    ELSE r

\* a decoder that never consumes the frame coordinates
ReadFrameNever(r, important_ids, plain) == r

\* if tile_type in tile_frame_important: texture_u, texture_v
ReadFrame(r, important_ids, plain) ==
    IF BitAnd(r.active_flags, 2) # 0 /\ InSeq(r.tile_type, important_ids)
    THEN [r EXCEPT !.c = FRead(FRead(r.c, 2, ~plain), 2, ~plain)]
    ELSE r

\* a decoder that consumes the wall extension on bit 6 of tile_flags, wall or no wall
ReadWallExtension(r, plain) ==
    LET c1 == IF BitAnd(r.active_flags, 4) # 0 THEN FRead(r.c, 1, ~plain) ELSE r.c
    IN  [r EXCEPT !.c = IF BitAnd(r.tile_flags, 64) # 0 THEN FRead(c1, 1, ~plain) ELSE c1]

\* if active_flags & 0x04: wall_type; if tile_flags & 0x40: wall_high
ReadWall(r, plain) ==
    IF BitAnd(r.active_flags, 4) # 0
    THEN [r EXCEPT !.c = IF BitAnd(r.tile_flags, 64) # 0
                         THEN FRead(FRead(r.c, 1, ~plain), 1, ~plain)
                         ELSE FRead(r.c, 1, ~plain)]
    ELSE r

\* liquid_type = (active_flags >> 3) & 0x03; if liquid_type != 0: liquid_amount
ReadLiquid(r, plain) ==
    IF BitAnd(ShiftRight(r.active_flags, 3), 3) # 0
    THEN [r EXCEPT !.c = FRead(r.c, 1, ~plain)]
    ELSE r

\* if tile_flags2 & 0x08: tile_color
ReadTileColor(r, plain) ==
    IF BitAnd(r.tile_flags2, 8) # 0 THEN [r EXCEPT !.c = FRead(r.c, 1, ~plain)] ELSE r

\* if tile_flags2 & 0x10: wall_color
ReadWallColor(r, plain) ==
    IF BitAnd(r.tile_flags2, 16) # 0 THEN [r EXCEPT !.c = FRead(r.c, 1, ~plain)] ELSE r

\* a decoder that reads a two-byte count in mode 3 as well
ReadRunLengthMode3(r) ==
    LET rle_storage == BitAnd(ShiftRight(r.active_flags, 6), 3)
        c1          == IF rle_storage = 1 THEN read_byte(r.c)
                       ELSE IF rle_storage >= 2 THEN read_uint16(r.c) ELSE r.c
        rle_count   == IF c1.exc # None THEN 0
                       ELSE IF rle_storage = 1 THEN ByteAt(r.c.pos)
                       ELSE IF rle_storage >= 2 THEN UnpackUnsigned(BytesAt(r.c.pos, 2))
                       ELSE 0
    IN  [r EXCEPT !.c = c1, !.num_tiles = rle_count + 1]

\* rle_storage = (active_flags >> 6) & 0x03; rle_count; num_tiles = rle_count + 1
ReadRunLength(r) ==
    LET rle_storage == BitAnd(ShiftRight(r.active_flags, 6), 3)
        c1          == IF rle_storage = 1 THEN read_byte(r.c)
                       ELSE IF rle_storage = 2 THEN read_uint16(r.c) ELSE r.c
        rle_count   == IF c1.exc # None THEN 0
                       ELSE IF rle_storage = 1 THEN ByteAt(r.c.pos)
                       ELSE IF rle_storage = 2 THEN UnpackUnsigned(BytesAt(r.c.pos, 2))
                       ELSE 0
    IN  [r EXCEPT !.c = c1, !.num_tiles = rle_count + 1]

DecodeRecord(c0, important_ids, plain) ==
    ReadRunLength(
     ReadWallColor(
      ReadTileColor(
       ReadLiquid(
        ReadWall(
         ReadFrame(
          ReadHighByte(ReadTileType(
           ReadTileFlags3(ReadTileFlags2(ReadTileFlags(ReadActiveFlags(NoRecord(c0))))))),
          important_ids, plain),
         plain),
        plain),
       plain),
      plain))

\* every row of the run, also those past the column's end
RunCoordsUnclipped(cx, cy, num_tiles, height) ==
    [dy \in 1..num_tiles |-> <<cx, cy + dy - 1>>]

\* for dy in range(num_tiles): if y + dy < max_tiles_y: append (x, y + dy)
RunCoords(cx, cy, num_tiles, height) ==
    SelectSeq([dy \in 1..num_tiles |-> <<cx, cy + dy - 1>>],
              LAMBDA xy : xy[2] < height)

\* tile_counts[tile_type] = tile_counts.get(tile_type, 0) + 1
Count(counts, tile_type) ==
    IF tile_type \in DOMAIN counts
    THEN [counts EXCEPT ![tile_type] = @ + 1]
    ELSE [t \in DOMAIN counts \cup {tile_type} |->
            IF t = tile_type THEN 1 ELSE counts[t]]

\* a minimum that lets a later element of equal key replace the best one
RECURSIVE MinFromLast(_, _)
MinFromLast(best, rest) ==
    IF rest = <<>> THEN best
    ELSE MinFromLast(IF Head(rest)[2] <= best[2] THEN Head(rest) ELSE best, Tail(rest))

\* min(coords, key=lambda c: c[1]): a later element replaces the best one only when
\* its key is strictly smaller
RECURSIVE MinFrom(_, _)
MinFrom(best, rest) ==
    IF rest = <<>> THEN best
    ELSE MinFrom(IF Head(rest)[2] < best[2] THEN Head(rest) ELSE best, Tail(rest))

MinByRow(cs) == MinFrom(Head(cs), Tail(cs))

(***************************************************************************)
(* parse_world, statement by statement.                                    *)
(***************************************************************************)
SetCursor(c) == pos' = c.pos /\ ops' = c.ops /\ exc' = c.exc

\* continue at `next`, or leave the function with the exception in flight
Goto(c, next, raised) == pc' = IF c.exc # None THEN raised ELSE next

\* the supported floor of the version check
MinVersion == 88

\* a check that is off by one and lets version 87 through
TooOldBelow87(v) == v < MinVersion - 1

\* if version < 88
TooOld(v) == v < MinVersion

\* version = read_int32(f); if version < 88: raise RuntimeError
PW_ReadVersion ==
    /\ pc = "pw_version"
    /\ LET c1 == read_int32(Cursor)
           v  == UnpackSigned(BytesAt(pos, 4))
       IN  IF c1.exc # None
           THEN SetCursor(c1) /\ pc' = "pw_raised" /\ UNCHANGED version
           ELSE /\ version' = v
                /\ pos' = c1.pos /\ ops' = c1.ops
                /\ IF TooOld(v)
                   THEN exc' = VersionError /\ pc' = "pw_raised"
                   ELSE exc' = None /\ pc' = "pw_magic"
    /\ UNCHANGED <<toolkitVars, fileVars, section_pointers, tile_frame_important, tiles_offset,
                   max_tiles_x, max_tiles_y, loopVars, callerVars, resultVars>>

\* f.read(7).decode('ascii'): any byte above 127 raises UnicodeDecodeError
DecodeAscii(c, bytes) ==
    IF c.exc = None /\ \E i \in 1..Len(bytes) : bytes[i] > 127
    THEN [c EXCEPT !.exc = DecodeError]
    ELSE c

\* if version >= 135: magic, file_type, revision, is_favorite
PW_ReadMagic ==
    /\ pc = "pw_magic"
    /\ LET c1 == DecodeAscii(FRead(Cursor, 7, FALSE), BytesAt(pos, 7))
           c2 == read_byte(c1)
           c3 == read_int32(c2)
           c4 == FRead(c3, 8, TRUE)
           c  == IF version >= 135 THEN c4 ELSE Cursor
       IN  SetCursor(c) /\ Goto(c, "pw_sections", "pw_raised")
    /\ UNCHANGED <<toolkitVars, fileVars, headerVars, loopVars, callerVars, resultVars>>

\* num_sections = read_int16(f); for i in range(num_sections): read_int32(f)
PW_ReadSectionPointers ==
    /\ pc = "pw_sections"
    /\ LET c1 == read_int16(Cursor)
           n  == IF c1.exc = None THEN UnpackSigned(BytesAt(pos, 2)) ELSE 0
           r  == ReadSigned(c1, n, 4)
       IN  /\ SetCursor(r.c) /\ Goto(r.c, "pw_frames", "pw_raised")
           /\ section_pointers' = IF r.c.exc = None THEN r.vals ELSE section_pointers
    /\ UNCHANGED <<toolkitVars, fileVars, version, tile_frame_important, tiles_offset,
                   max_tiles_x, max_tiles_y, loopVars, callerVars, resultVars>>

\* num_tile_types = read_int16(f); for i in range(num_tile_types): read_int16(f)
PW_ReadFrameImportant ==
    /\ pc = "pw_frames"
    /\ LET c1 == read_int16(Cursor)
           n  == IF c1.exc = None THEN UnpackSigned(BytesAt(pos, 2)) ELSE 0
           r  == ReadSigned(c1, n, 2)
       IN  /\ SetCursor(r.c) /\ Goto(r.c, "pw_jump_tiles", "pw_raised")
           /\ tile_frame_important' =
                 IF r.c.exc = None THEN r.vals ELSE tile_frame_important
    /\ UNCHANGED <<toolkitVars, fileVars, version, section_pointers, tiles_offset,
                   max_tiles_x, max_tiles_y, loopVars, callerVars, resultVars>>

\* if len(section_pointers) < 2: raise; tiles_offset = section_pointers[1]; f.seek
PW_JumpToTiles ==
    /\ pc = "pw_jump_tiles"
    /\ IF Len(section_pointers) < 2
       THEN /\ exc' = SectionError /\ pc' = "pw_raised"
            /\ UNCHANGED <<pos, ops, tiles_offset>>
       ELSE LET c == FSeek(Cursor, section_pointers[2])
            IN  /\ tiles_offset' = section_pointers[2]
                /\ SetCursor(c) /\ Goto(c, "pw_jump_header", "pw_raised")
    /\ UNCHANGED <<toolkitVars, fileVars, version, section_pointers, tile_frame_important,
                   max_tiles_x, max_tiles_y, loopVars, callerVars, resultVars>>

\* header_offset = section_pointers[0]; f.seek(header_offset)
PW_JumpToHeader ==
    /\ pc = "pw_jump_header"
    /\ LET c == FSeek(Cursor, section_pointers[1])
       IN  SetCursor(c) /\ Goto(c, "pw_header", "pw_raised")
    /\ UNCHANGED <<toolkitVars, fileVars, headerVars, loopVars, callerVars, resultVars>>

\* world_gen_version = struct.unpack("<q", f.read(8))[0]
ReadGenVersion(c) == FRead(c, 8, TRUE)

\* if version >= 179: guid = f.read(16)
ReadGuid(c, v) == IF v >= 179 THEN FRead(c, 16, FALSE) ELSE c

\* world_id, left, right, top, bottom
ReadBounds(c) == ReadSigned(c, 5, 4).c

\* max_tiles_y = read_int32(f); max_tiles_x = read_int32(f)
ReadDims(c) ==
    LET cy == read_int32(c)
        cx == read_int32(cy)
    IN  [c |-> cx,
         max_tiles_y |-> IF cx.exc = None THEN UnpackSigned(BytesAt(c.pos, 4)) ELSE 0,
         max_tiles_x |-> IF cx.exc = None THEN UnpackSigned(BytesAt(cy.pos, 4)) ELSE 0]

\* world_name .. max_tiles_x: the minimal header
PW_ReadHeader ==
    /\ pc = "pw_header"
    /\ LET h == ReadDims(ReadBounds(ReadGuid(ReadGenVersion(
                    read_string(read_string(Cursor))), version)))
       IN  /\ SetCursor(h.c) /\ Goto(h.c, "pw_back_tiles", "pw_raised")
           /\ max_tiles_y' = h.max_tiles_y
           /\ max_tiles_x' = h.max_tiles_x
    /\ UNCHANGED <<toolkitVars, fileVars, version, section_pointers, tile_frame_important,
                   tiles_offset, loopVars, callerVars, resultVars>>

\* the seek back to the tiles without "sandstone_coords = []"
PW_BackToTilesKeep ==
    /\ pc = "pw_back_tiles"
    /\ LET c == FSeek(Cursor, tiles_offset)
       IN  SetCursor(c) /\ Goto(c, "pw_tiles", "pw_raised")
    /\ x' = 0 /\ y' = 0
    /\ tile_counts' = [t \in {} |-> 0]
    /\ UNCHANGED <<toolkitVars, fileVars, headerVars, decoded, callerVars, resultVars, sandstone_coords>>

\* f.seek(tiles_offset); sandstone_coords = []; tile_counts = {}; enter the for loop
PW_BackToTiles ==
    /\ pc = "pw_back_tiles"
    /\ LET c == FSeek(Cursor, tiles_offset)
       IN  SetCursor(c) /\ Goto(c, "pw_tiles", "pw_raised")
    /\ x' = 0 /\ y' = 0
    /\ sandstone_coords' = <<>>
    /\ tile_counts' = [t \in {} |-> 0]
    /\ UNCHANGED <<toolkitVars, fileVars, headerVars, decoded, callerVars, resultVars>>

\* if tile_type == SANDSTONE_BRICK: sandstone_coords.append((x, y))   [inside "tile present"]
FoundCoords(tile_type, cx, cy) ==
    IF tile_type = SANDSTONE_BRICK THEN << <<cx, cy>> >> ELSE <<>>

\* if tile_type == SANDSTONE_BRICK: record all coordinates of the run
RunMatches(tile_type, cx, cy, num_tiles, height) ==
    IF tile_type = SANDSTONE_BRICK THEN RunCoords(cx, cy, num_tiles, height) ELSE <<>>

\* the record of one decoded cell kept in `decoded`
Decoded(r, cx, cy, start) ==
    [x |-> cx, y |-> cy, start |-> start, end |-> r.c.pos,
     active_flags |-> r.active_flags, tile_flags |-> r.tile_flags,
     tile_flags2 |-> r.tile_flags2, tile_flags3 |-> r.tile_flags3,
     tile_type |-> r.tile_type, num_tiles |-> r.num_tiles]

\* one iteration of "while y < max_tiles_y"
PW_DecodeCell ==
    /\ pc = "pw_tiles"
    /\ x < max_tiles_x
    /\ y < max_tiles_y
    /\ LET r == DecodeRecord(Cursor, tile_frame_important, FALSE)
       IN  /\ SetCursor(r.c) /\ Goto(r.c, "pw_tiles", "pw_raised")
           /\ IF r.c.exc = None
              THEN /\ tile_counts' = IF r.tile_type # NoTile
                                     THEN Count(tile_counts, r.tile_type)
                                     ELSE tile_counts
                   /\ sandstone_coords' =
                         sandstone_coords \o FoundCoords(r.tile_type, x, y)
                         \o RunMatches(r.tile_type, x, y, r.num_tiles, max_tiles_y)
                   /\ decoded' = Append(decoded, Decoded(r, x, y, pos))
                   /\ y' = y + r.num_tiles
                   /\ x' = x
              ELSE UNCHANGED loopVars
    /\ UNCHANGED <<toolkitVars, fileVars, headerVars, callerVars, resultVars>>

\* the while loop of column x ended: next x of "for x in range(max_tiles_x)", y = 0
PW_NextColumn ==
    /\ pc = "pw_tiles"
    /\ x < max_tiles_x
    /\ y >= max_tiles_y
    /\ x' = x + 1
    /\ y' = 0
    /\ UNCHANGED <<toolkitVars, fileVars, headerVars, callerVars, resultVars, pc, pos, ops, exc,
                   sandstone_coords, tile_counts, decoded>>

\* the for loop is exhausted: return sandstone_coords
PW_Return ==
    /\ pc = "pw_tiles"
    /\ x >= max_tiles_x
    /\ pc' = "pw_returned"
    /\ coords' = sandstone_coords
    /\ received' = TRUE
    /\ UNCHANGED <<toolkitVars, fileVars, headerVars, loopVars, callerVars, pos, ops, exc>>


(***************************************************************************)
(* The callers of parse_world.                                             *)
(***************************************************************************)
\* correct_parser.py run as a script: report the count and the highest point
Main ==
    /\ fx.entry = "correct_parser"
    /\ pc \in {"pw_returned", "pw_raised"}
    /\ highest' = IF pc = "pw_returned" /\ Len(coords) # 0
                  THEN MinByRow(coords) ELSE <<>>
    /\ pc' = "done"
    /\ UNCHANGED <<toolkitVars, fileVars, headerVars, loopVars, resultVars, pos, ops, exc,
                   prefixed, renames, retval, run, first>>

\* what os.rename and the print after it can do: both succeed; os.rename raises
\* OSError (the target is a directory, the directory is read-only); the file is
\* renamed and the print raises UnicodeEncodeError (stdout cannot encode the
\* message's first characters).  except Exception turns both into return False.
RenameOutcomes == {"renamed", "rename raises", "print raises"}

\* check_and_rename_world: rename the file when a pyramid was found
check_and_rename_world ==
    /\ fx.entry = "check_and_rename"
    /\ pc \in {"pw_returned", "pw_raised"}
    /\ IF pc = "pw_returned" /\ Len(coords) > 0
       THEN /\ highest' = MinByRow(coords)
            /\ IF prefixed
               THEN retval' = "True" /\ UNCHANGED <<prefixed, renames>>
               ELSE /\ renames' = renames + 1
                    /\ \E o \in RenameOutcomes :
                          /\ prefixed' = (o # "rename raises")
                          /\ retval' = IF o = "renamed" THEN "True" ELSE "False"
       ELSE /\ retval' = "False"
            /\ UNCHANGED <<highest, prefixed, renames>>
    /\ pc' = "done"
    /\ UNCHANGED <<toolkitVars, fileVars, headerVars, loopVars, resultVars, pos, ops, exc,
                   run, first>>


(***************************************************************************)
(* analyze_tiles, statement by statement.  It unpacks only the values it   *)
(* uses; every field it discards is a bare f.read.                         *)
(***************************************************************************)
\* version = struct.unpack("<i", f.read(4))[0]; there is no version check
AT_ReadVersion ==
    /\ pc = "at_version"
    /\ LET c1 == read_int32(Cursor)
       IN  /\ SetCursor(c1) /\ Goto(c1, "at_magic", "at_raised")
           /\ version' = IF c1.exc = None THEN UnpackSigned(BytesAt(pos, 4)) ELSE version
    /\ UNCHANGED <<toolkitVars, fileVars, section_pointers, tile_frame_important, tiles_offset,
                   max_tiles_x, max_tiles_y, loopVars, callerVars, resultVars>>

\* if version >= 135: f.read(7); f.read(1); f.read(4); f.read(8)
AT_ReadMagic ==
    /\ pc = "at_magic"
    /\ LET c4 == FRead(FRead(FRead(FRead(Cursor, 7, FALSE), 1, FALSE), 4, FALSE), 8, FALSE)
           c  == IF version >= 135 THEN c4 ELSE Cursor
       IN  SetCursor(c) /\ Goto(c, "at_sections", "at_raised")
    /\ UNCHANGED <<toolkitVars, fileVars, headerVars, loopVars, callerVars, resultVars>>

\* num_sections = read_int16(f); for i in range(num_sections): read_int32(f)
AT_ReadSectionPointers ==
    /\ pc = "at_sections"
    /\ LET c1 == read_int16(Cursor)
           n  == IF c1.exc = None THEN UnpackSigned(BytesAt(pos, 2)) ELSE 0
           r  == ReadSigned(c1, n, 4)
       IN  /\ SetCursor(r.c) /\ Goto(r.c, "at_frames", "at_raised")
           /\ section_pointers' = IF r.c.exc = None THEN r.vals ELSE section_pointers
    /\ UNCHANGED <<toolkitVars, fileVars, version, tile_frame_important, tiles_offset,
                   max_tiles_x, max_tiles_y, loopVars, callerVars, resultVars>>

\* num_tile_types = read_int16(f); for i in range(num_tile_types): read_int16(f)
AT_ReadFrameImportant ==
    /\ pc = "at_frames"
    /\ LET c1 == read_int16(Cursor)
           n  == IF c1.exc = None THEN UnpackSigned(BytesAt(pos, 2)) ELSE 0
           r  == ReadSigned(c1, n, 2)
       IN  /\ SetCursor(r.c) /\ Goto(r.c, "at_jump_header", "at_raised")
           /\ tile_frame_important' =
                 IF r.c.exc = None THEN r.vals ELSE tile_frame_important
    /\ UNCHANGED <<toolkitVars, fileVars, version, section_pointers, tiles_offset,
                   max_tiles_x, max_tiles_y, loopVars, callerVars, resultVars>>

\* header_offset = section_pointers[0]; f.seek(header_offset)
AT_JumpToHeader ==
    /\ pc = "at_jump_header"
    /\ IF Len(section_pointers) < 1
       THEN exc' = IndexError /\ pc' = "at_raised" /\ UNCHANGED <<pos, ops>>
       ELSE LET c == FSeek(Cursor, section_pointers[1])
            IN  SetCursor(c) /\ Goto(c, "at_header", "at_raised")
    /\ UNCHANGED <<toolkitVars, fileVars, headerVars, loopVars, callerVars, resultVars>>

\* f.read(8); if version >= 179: f.read(16); five times f.read(4)
SkipToDims(c, v) ==
    FRead(FRead(FRead(FRead(FRead(ReadGuid(FRead(c, 8, FALSE), v),
        4, FALSE), 4, FALSE), 4, FALSE), 4, FALSE), 4, FALSE)

\* name, seed, world gen version, guid, the five bounds, max_tiles_y, max_tiles_x
AT_ReadHeader ==
    /\ pc = "at_header"
    /\ LET h == ReadDims(SkipToDims(read_string(read_string(Cursor)), version))
       IN  /\ SetCursor(h.c) /\ Goto(h.c, "at_jump_tiles", "at_raised")
           /\ max_tiles_y' = h.max_tiles_y
           /\ max_tiles_x' = h.max_tiles_x
    /\ UNCHANGED <<toolkitVars, fileVars, version, section_pointers, tile_frame_important,
                   tiles_offset, loopVars, callerVars, resultVars>>

\* tiles_offset = section_pointers[1]; f.seek(tiles_offset); enter the for loop
AT_JumpToTiles ==
    /\ pc = "at_jump_tiles"
    /\ IF Len(section_pointers) < 2
       THEN exc' = IndexError /\ pc' = "at_raised" /\ UNCHANGED <<pos, ops, tiles_offset>>
       ELSE LET c == FSeek(Cursor, section_pointers[2])
            IN  /\ tiles_offset' = section_pointers[2]
                /\ SetCursor(c) /\ Goto(c, "at_tiles", "at_raised")
    /\ x' = 0 /\ y' = 0
    /\ tile_counts' = [t \in {} |-> 0]
    /\ UNCHANGED <<toolkitVars, fileVars, version, section_pointers, tile_frame_important,
                   max_tiles_x, max_tiles_y, sandstone_coords, decoded,
                   callerVars, resultVars>>

\* one iteration of "while y < max_tiles_y"
AT_DecodeCell ==
    /\ pc = "at_tiles"
    /\ x < max_tiles_x
    /\ y < max_tiles_y
    /\ LET r == DecodeRecord(Cursor, tile_frame_important, TRUE)
       IN  /\ SetCursor(r.c) /\ Goto(r.c, "at_tiles", "at_raised")
           /\ IF r.c.exc = None
              THEN /\ tile_counts' = IF r.tile_type # NoTile
                                     THEN Count(tile_counts, r.tile_type)
                                     ELSE tile_counts
                   /\ decoded' = Append(decoded, Decoded(r, x, y, pos))
                   /\ y' = y + r.num_tiles
                   /\ UNCHANGED <<x, sandstone_coords>>
              ELSE UNCHANGED loopVars
    /\ UNCHANGED <<toolkitVars, fileVars, headerVars, callerVars, resultVars>>

\* the while loop of column x ended: next x of "for x in range(max_tiles_x)", y = 0
AT_NextColumn ==
    /\ pc = "at_tiles"
    /\ x < max_tiles_x
    /\ y >= max_tiles_y
    /\ x' = x + 1
    /\ y' = 0
    /\ UNCHANGED <<toolkitVars, fileVars, headerVars, callerVars, resultVars, pc, pos, ops, exc,
                   sandstone_coords, tile_counts, decoded>>

\* return tile_counts
AT_Return ==
    /\ pc = "at_tiles"
    /\ x >= max_tiles_x
    /\ pc' = "at_returned"
    /\ received' = TRUE
    /\ UNCHANGED <<toolkitVars, fileVars, headerVars, loopVars, callerVars, coords, pos, ops, exc>>

\* analyze_tiles.py run as a script: min(tile_counts.keys()) of an empty dict raises
Analyze ==
    /\ fx.entry = "analyze_tiles"
    /\ pc \in {"at_returned", "at_raised"}
    /\ exc' = IF pc = "at_returned" /\ DOMAIN tile_counts = {}
              THEN "ValueError: min() arg is an empty sequence" ELSE exc
    /\ pc' = "done"
    /\ UNCHANGED <<toolkitVars, fileVars, headerVars, loopVars, callerVars, resultVars, pos, ops>>


(***************************************************************************)
(* A second scan of the same file.  Every call opens the file anew and     *)
(* gets fresh caller locals; the locals of the callee are whatever its own *)
(* assignments make them.                                                  *)
(***************************************************************************)
InitialPc(f) == IF f.entry = "analyze_tiles" THEN "at_version" ELSE "pw_version"

\* what a finished scan handed to its caller
Outcome ==
    [exc |-> exc, received |-> received, coords |-> coords, highest |-> highest,
     counts |-> IF received /\ fx.entry = "analyze_tiles"
                THEN tile_counts ELSE [t \in {} |-> 0]]

Rerun ==
    /\ pc = "done"
    /\ run = 1
    /\ fx.reruns
    /\ first' = <<Outcome>>
    /\ run' = 2
    /\ pc' = InitialPc(fx)
    /\ pos' = 0
    /\ ops' = <<>>
    /\ exc' = None
    /\ decoded' = <<>>
    /\ highest' = <<>>
    /\ retval' = None
    /\ coords' = <<>>
    /\ received' = FALSE
    /\ UNCHANGED <<toolkitVars, fileVars, headerVars, x, y, sandstone_coords, tile_counts,
                   prefixed, renames>>

(***************************************************************************)
(* The fixtures.                                                           *)
(***************************************************************************)
Entries == {"correct_parser", "check_and_rename", "analyze_tiles"}

Air        == <<"air", 0, 0>>
AirRun2    == <<"air2", 0, 0>>
Brick      == <<"tile", 151, 0>>
BrickRun2  == <<"tile2", 151, 0>>
BrickRun3  == <<"tile3", 151, 0>>
Stone7     == <<"tile", 7, 0>>
Tile42Run2 == <<"tile2", 42, 0>>
Ext407     == <<"ext", 151, 1>>
Chest21    == <<"full", 21, 0>>

CellAlphabet == {Air, Brick, BrickRun2, BrickRun3, Ext407, Chest21}

RECURSIVE SeqsUpTo(_, _)
SeqsUpTo(S, n) ==
    IF n = 0 THEN {<<>>}
    ELSE LET shorter == SeqsUpTo(S, n - 1)
         IN  shorter \cup {Append(q, e) : q \in {t \in shorter : Len(t) = n - 1}, e \in S}

BaseFx ==
    [entry |-> "check_and_rename", prefixed |-> FALSE, reruns |-> FALSE,
     version |-> 88, magicEnd |-> 99, nsec |-> 3, hdrOff |-> "ok", tileOff |-> "ok",
     fi |-> <<21>>, namelen |-> 2, seedlen |-> 0,
     width |-> 1, height |-> 1, cells |-> <<Brick>>, cut |-> -1]

\* every tile stream under every small grid: up to MaxCells records, and no more than
\* the w * h a grid can hold
StreamFixtures ==
    {[BaseFx EXCEPT !.entry = e, !.width = wh[1], !.height = wh[2], !.cells = cs] :
        e \in {"check_and_rename", "analyze_tiles"},
        wh \in (1..MaxWidth) \X (1..MaxHeight),
        cs \in SeqsUpTo(CellAlphabet, MaxCells)}

StreamFits(f) == Len(f.cells) <= f.width * f.height

\* the 3 x 2 grid of the specification: 42 42 | 151 7 | air air
ScenarioFx ==
    [BaseFx EXCEPT !.version = 179, !.seedlen = 1, !.width = 3, !.height = 2,
                   !.cells = <<Tile42Run2, Brick, Stone7, AirRun2>>]

\* a 2 x 3 grid using every optional field of a record
RichFx ==
    [BaseFx EXCEPT !.version = 135, !.width = 2, !.height = 3,
                   !.cells = <<Chest21, Ext407, Brick, BrickRun3>>]

\* the two files above, whole and truncated at every byte, scanned twice
CutsOf(f) ==
    {[f EXCEPT !.entry = e, !.prefixed = p, !.reruns = TRUE, !.cut = k] :
        e \in Entries, p \in BOOLEAN, k \in -1..(FullLength(f) - 1)}

CutFixtures == CutsOf(ScenarioFx) \cup CutsOf(RichFx)

Versions == {-1, 87, 88, 134, 135, 178, 179}

\* headers of every version, with a good and a bad magic tag
VersionFixtures ==
    {[BaseFx EXCEPT !.entry = e, !.version = v, !.magicEnd = m, !.namelen = n] :
        e \in Entries, v \in Versions, m \in {99, 200}, n \in {0, 2}}

\* section tables with 0..3 entries and pointers inside and outside the file
SectionFixtures ==
    {[BaseFx EXCEPT !.entry = e, !.version = v, !.nsec = n, !.hdrOff = ho,
                    !.tileOff = to, !.width = wh[1], !.height = wh[2]] :
        e \in Entries, v \in {88, 179}, n \in 0..3,
        ho \in {"ok", "neg", "eof", "past"}, to \in {"ok", "neg", "eof", "past"},
        wh \in {<<1, 1>>, <<0, 1>>, <<1, 0>>, <<-1, 1>>}}

Fixtures == {f \in StreamFixtures : StreamFits(f)} \cup CutFixtures \cup VersionFixtures \cup SectionFixtures

\* a column of 16 records for every pair of identifier bytes: the records of one file
\* share the low byte and take 16 consecutive high bytes; then every low byte alone,
\* once as a bare record and once behind a flag byte whose bit 5 is clear
IdFixtures ==
    {[BaseFx EXCEPT !.entry = "correct_parser", !.height = 16,
                    !.cells = [k \in 1..16 |-> <<"ext", lo, 16 * hh + k - 1>>]] :
        lo \in 0..255, hh \in 0..15}
    \cup {[BaseFx EXCEPT !.entry = "correct_parser", !.height = 16,
                         !.cells = [k \in 1..16 |-> <<shape, 16 * lh + k - 1, 0>>]] :
        lh \in 0..15, shape \in {"tile", "full"}}

\* the specification's scenario under every entry point, scanned twice
ScenarioRuns == {[ScenarioFx EXCEPT !.entry = e, !.reruns = TRUE] : e \in Entries}

(***************************************************************************)
(* GenerationOrchestrator.execute_strategy.  The platform adapter and the  *)
(* pyramid detector are the environment: generate_world returns a path,    *)
(* returns None or raises; detect reports a pyramid, none, or an error.    *)
(***************************************************************************)
\* PyramidDetectionResult(world_path, found, error_message=...)
PyramidDetectionResult(found, error_message) ==
    [is_none |-> FALSE, found |-> found, error_message |-> error_message]

\* pyramid_detection = None
NoDetection == [is_none |-> TRUE, found |-> FALSE, error_message |-> ""]

\* WorldGenerationResult(params, success, pyramid_detection, error_message), deleted = False
WorldGenerationResult(world_name, success, pyramid_detection, error_message) ==
    [world_name |-> world_name, success |-> success,
     pyramid_detection |-> pyramid_detection, error_message |-> error_message,
     deleted |-> FALSE]

\* WorldGenerationResult.has_pyramid
has_pyramid(r) == ~r.pyramid_detection.is_none /\ r.pyramid_detection.found

\* GenerationStatistics(): all counters 0, no pyramid worlds
GenerationStatistics ==
    [total_generated |-> 0, pyramids_found |-> 0, worlds_deleted |-> 0,
     pyramid_worlds |-> <<>>]

\* statistics that leave a deleted world out of total_generated
add_result_not_deleted(st, r) ==
    IF r.success
    THEN [st EXCEPT !.total_generated = IF r.deleted THEN @ ELSE @ + 1,
                    !.pyramids_found = IF has_pyramid(r) THEN @ + 1 ELSE @,
                    !.pyramid_worlds = IF has_pyramid(r) THEN Append(@, r.world_name) ELSE @,
                    !.worlds_deleted = IF r.deleted THEN @ + 1 ELSE @]
    ELSE st

\* GenerationStatistics.add_result
add_result(st, r) ==
    IF r.success
    THEN [st EXCEPT !.total_generated = @ + 1,
                    !.pyramids_found = IF has_pyramid(r) THEN @ + 1 ELSE @,
                    !.pyramid_worlds = IF has_pyramid(r) THEN Append(@, r.world_name) ELSE @,
                    !.worlds_deleted = IF r.deleted THEN @ + 1 ELSE @]
    ELSE st

FixedCountStrategy(total_count, delete_mode) ==
    [kind |-> "fixed", total_count |-> total_count, delete_mode |-> delete_mode,
     pyramid_target |-> 0, max_attempts |-> 0]

TargetPyramidStrategy(pyramid_target, max_attempts) ==
    [kind |-> "target", total_count |-> 0, delete_mode |-> 0,
     pyramid_target |-> pyramid_target, max_attempts |-> max_attempts]

BasicGenerationStrategy(total_count) ==
    [kind |-> "basic", total_count |-> total_count, delete_mode |-> 0,
     pyramid_target |-> 0, max_attempts |-> 0]

\* a should_continue that stops one world late
should_continue_late(s, st) ==
    CASE s.kind = "fixed"  -> st.total_generated <= s.total_count
      [] s.kind = "target" -> /\ st.pyramids_found < s.pyramid_target
                              /\ st.total_generated < s.max_attempts
      [] s.kind = "basic"  -> st.total_generated <= s.total_count

\* strategy.should_continue(stats) of the three strategies
should_continue(s, st) ==
    CASE s.kind = "fixed"  -> st.total_generated < s.total_count
      [] s.kind = "target" -> /\ st.pyramids_found < s.pyramid_target
                              /\ st.total_generated < s.max_attempts
      [] s.kind = "basic"  -> st.total_generated < s.total_count

\* a fixed strategy that deletes whatever delete_mode says
should_delete_always(s) ==
    CASE s.kind = "fixed"  -> TRUE
      [] s.kind = "target" -> TRUE
      [] s.kind = "basic"  -> FALSE

\* strategy.should_delete_non_pyramid() of the three strategies
should_delete_non_pyramid(s) ==
    CASE s.kind = "fixed"  -> s.delete_mode = 1
      [] s.kind = "target" -> TRUE
      [] s.kind = "basic"  -> FALSE

\* detect_pyramid = isinstance(strategy, GenerationStrategy): all three strategies
\* are subclasses of GenerationStrategy
detect_pyramid(s) == s.kind \in {"fixed", "target", "basic"}

GenerateOutcomes == {"path", "None", "raises"}

DetectOutcomes == {"found", "not found", "error"}

\* PyramidDetector.detect: it catches every exception and reports it in error_message
detect(d) ==
    PyramidDetectionResult(d = "found",
                           IF d = "error" THEN "Error detecting pyramid" ELSE "")

\* generate_single_world(params, detect_pyramid) when generate_world does g and
\* detect would do d
generate_single_world(world_name, dp, g, d) ==
    CASE g = "None" ->
            WorldGenerationResult(world_name, FALSE, NoDetection,
                                  "Platform returned None for world path")
      [] g = "raises" ->
            WorldGenerationResult(world_name, FALSE, NoDetection, "Generation failed")
      [] g = "path" ->
            WorldGenerationResult(world_name, TRUE,
                                  IF dp THEN detect(d) ELSE NoDetection, "")

\* if result.pyramid_detection: if not result.has_pyramid and
\* strategy.should_delete_non_pyramid(): delete_world; result.deleted = True
Deletes(s, r) ==
    /\ ~r.pyramid_detection.is_none
    /\ ~has_pyramid(r)
    /\ should_delete_non_pyramid(s)

\* one iteration of the while loop in which generation fails: log and continue
ES_GenerationFailed ==
    /\ epc = "loop"
    /\ should_continue(strategy, stats)
    /\ platform.generate_world < MaxCalls
    /\ \E g \in GenerateOutcomes \ {"path"} :
          result' = generate_single_world(stats.total_generated + 1,
                                          detect_pyramid(strategy), g, "not found")
    /\ platform' = [platform EXCEPT !.generate_world = @ + 1]
    /\ UNCHANGED <<scanVars, strategy, stats, results, epc, detector,
                   validator, value, outcome>>

\* platform.delete_world(world_path) -> bool: the file is gone, or it could not be
\* deleted; the orchestrator does not look at the answer
DeleteOutcomes == BOOLEAN

\* one iteration of the while loop in which a world is generated
ES_WorldGenerated ==
    /\ epc = "loop"
    /\ should_continue(strategy, stats)
    /\ platform.generate_world < MaxCalls
    /\ \E d \in DetectOutcomes, returned \in DeleteOutcomes :
          LET r0 == generate_single_world(stats.total_generated + 1,
                                          detect_pyramid(strategy), "path", d)
              r1 == [r0 EXCEPT !.deleted = Deletes(strategy, r0)]
          IN  /\ result' = r1
              /\ detector' = [detector EXCEPT !.detect =
                                 IF detect_pyramid(strategy) THEN @ + 1 ELSE @]
              /\ platform' = [platform EXCEPT
                                 !.generate_world = @ + 1,
                                 !.delete_world = IF r1.deleted THEN Append(@, r1) ELSE @,
                                 !.delete_returned =
                                     IF r1.deleted THEN Append(@, returned) ELSE @]
              /\ stats' = add_result(stats, r1)
              /\ results' = IF r1.deleted THEN results ELSE Append(results, r1)
    /\ UNCHANGED <<scanVars, strategy, epc, validator, value, outcome>>

\* the loop ends: return results, stats
ES_Return ==
    /\ epc = "loop"
    /\ ~should_continue(strategy, stats)
    /\ epc' = "returned"
    /\ UNCHANGED <<scanVars, strategy, stats, results, result, platform, detector,
                   validator, value, outcome>>

\* every strategy with parameters up to MaxParam
Strategies ==
    {FixedCountStrategy(n, m) : n \in 1..MaxParam, m \in {0, 1}}
    \cup {TargetPyramidStrategy(t, m) : t \in 1..MaxParam, m \in 1..MaxParam}
    \cup {BasicGenerationStrategy(n) : n \in 1..MaxParam}

\* no scan of a world file is under way
ScanIdle ==
    /\ fx = BaseFx
    /\ data = StoredBytes(BaseFx)
    /\ prefixed = FALSE
    /\ renames = 0
    /\ pc = "done"
    /\ pos = 0
    /\ ops = <<>>
    /\ exc = None
    /\ version = 0
    /\ section_pointers = <<>>
    /\ tile_frame_important = <<>>
    /\ tiles_offset = 0
    /\ max_tiles_x = 0
    /\ max_tiles_y = 0
    /\ x = 0
    /\ y = 0
    /\ sandstone_coords = <<>>
    /\ tile_counts = [t \in {} |-> 0]
    /\ decoded = <<>>
    /\ highest = <<>>
    /\ retval = None
    /\ coords = <<>>
    /\ received = FALSE
    /\ run = 1
    /\ first = <<>>

\* execute_strategy is not running
OrchestratorIdle ==
    /\ strategy = <<>>
    /\ stats = GenerationStatistics
    /\ results = <<>>
    /\ result = <<>>
    /\ epc = "idle"
    /\ platform = [generate_world |-> 0, delete_world |-> <<>>, delete_returned |-> <<>>]
    /\ detector = [detect |-> 0]

\* no validator is in use
ValidatorIdle ==
    /\ validator = <<>>
    /\ value = <<>>
    /\ outcome = <<>>

\* execute_strategy(base_params, strategy) is entered
InitOrchestrator ==
    /\ ScanIdle /\ ValidatorIdle
    /\ strategy \in Strategies
    /\ stats = GenerationStatistics
    /\ results = <<>>
    /\ result = <<>>
    /\ epc = "loop"
    /\ platform = [generate_world |-> 0, delete_world |-> <<>>, delete_returned |-> <<>>]
    /\ detector = [detect |-> 0]

NextOrchestrator ==
    \/ ES_GenerationFailed
    \/ ES_WorldGenerated
    \/ ES_Return

SpecOrchestrator == InitOrchestrator /\ [][NextOrchestrator]_vars

(***************************************************************************)
(* gui_validators: ParameterValidator.validate and ChoiceValidator.validate *)
(* on the values a caller can pass.  A value carries its Python type; a    *)
(* string is its sequence of characters; a float is kept as twice its      *)
(* value, so that halves are exact.                                        *)
(***************************************************************************)
IntValue(n) == [type |-> "int", n |-> n, s |-> <<>>]

BoolValue(b) == [type |-> "bool", n |-> IF b THEN 1 ELSE 0, s |-> <<>>]

StrValue(s) == [type |-> "str", n |-> 0, s |-> s]

\* the float k / 2
FloatValue(k) == [type |-> "float", n |-> k, s |-> <<>>]

NanValue == [type |-> "float nan", n |-> 0, s |-> <<>>]

InfValue(sign) == [type |-> "float inf", n |-> sign, s |-> <<>>]

NoneValue == [type |-> "NoneType", n |-> 0, s |-> <<>>]

ListValue == [type |-> "list", n |-> 0, s |-> <<>>]

Digits == {"0", "1", "2", "3", "4", "5", "6", "7", "8", "9"}

DigitValue(c) ==
    CASE c = "0" -> 0 [] c = "1" -> 1 [] c = "2" -> 2 [] c = "3" -> 3 [] c = "4" -> 4
      [] c = "5" -> 5 [] c = "6" -> 6 [] c = "7" -> 7 [] c = "8" -> 8 [] c = "9" -> 9

RECURSIVE LStrip(_)
LStrip(s) == IF s # <<>> /\ Head(s) = " " THEN LStrip(Tail(s)) ELSE s

RECURSIVE RStrip(_)
RStrip(s) ==
    IF s # <<>> /\ s[Len(s)] = " " THEN RStrip(SubSeq(s, 1, Len(s) - 1)) ELSE s

\* the digits of an integer literal: digits with single underscores between them
IsDigitString(b) ==
    /\ b # <<>>
    /\ b[1] \in Digits
    /\ b[Len(b)] \in Digits
    /\ \A k \in 1..Len(b) : b[k] \in Digits \cup {"_"}
    /\ \A k \in 1..(Len(b) - 1) : ~(b[k] = "_" /\ b[k + 1] = "_")

RECURSIVE DigitStringValue(_, _)
DigitStringValue(b, acc) ==
    IF b = <<>> THEN acc
    ELSE IF Head(b) = "_" THEN DigitStringValue(Tail(b), acc)
    ELSE DigitStringValue(Tail(b), 10 * acc + DigitValue(Head(b)))

\* int(s) of a str: surrounding whitespace, an optional sign, decimal digits
int_of_str(s) ==
    LET t == RStrip(LStrip(s))
        signed == t # <<>> /\ Head(t) \in {"+", "-"}
        b == IF signed THEN Tail(t) ELSE t
    IN  IF IsDigitString(b)
        THEN [exc |-> None,
              val |-> IF signed /\ Head(t) = "-"
                      THEN 0 - DigitStringValue(b, 0) ELSE DigitStringValue(b, 0)]
        ELSE [exc |-> "ValueError", val |-> 0]

\* int(value): what the builtin answers for each type
int(v) ==
    CASE v.type \in {"int", "bool"} -> [exc |-> None, val |-> v.n]
      [] v.type = "str" -> int_of_str(v.s)
      [] v.type = "float" ->
            [exc |-> None,
             val |-> IF v.n >= 0 THEN v.n \div 2 ELSE 0 - ((0 - v.n) \div 2)]
      [] v.type = "float nan" -> [exc |-> "ValueError", val |-> 0]
      [] v.type = "float inf" -> [exc |-> "OverflowError", val |-> 0]
      [] v.type \in {"NoneType", "list"} -> [exc |-> "TypeError", val |-> 0]

\* value in self.choices: hash the value, then compare with the keys
in_choices(v, choices) ==
    CASE v.type \in {"int", "bool"} -> [exc |-> None, val |-> v.n \in choices]
      [] v.type = "float" ->
            [exc |-> None, val |-> v.n % 2 = 0 /\ (v.n \div 2) \in choices]
      [] v.type \in {"str", "float nan", "float inf", "NoneType"} ->
            [exc |-> None, val |-> FALSE]
      [] v.type = "list" -> [exc |-> "TypeError", val |-> FALSE]

ParameterValidator(name, min_val, max_val) ==
    [class |-> "ParameterValidator", name |-> name,
     min_val |-> min_val, max_val |-> max_val, choices |-> {}]

ChoiceValidator(name, choices) ==
    [class |-> "ChoiceValidator", name |-> name,
     min_val |-> 0, max_val |-> 0, choices |-> choices]

VALIDATORS ==
    {ChoiceValidator("SIZE", {1, 2, 3}),
     ChoiceValidator("DIFFICULTY", {1, 2, 3}),
     ChoiceValidator("EVIL", {1, 2, 3}),
     ParameterValidator("COUNT", 1, 200),
     ChoiceValidator("DELETE_NO_PYRAMID", {0, 1}),
     ParameterValidator("PYRAMID_TARGET", 1, 50),
     ParameterValidator("MAX_ATTEMPTS", 1, 500)}

Returns(v) == [kind |-> "returns", exc |-> None, val |-> v]

Raises(e) == [kind |-> "raises", exc |-> e, val |-> NoneValue]

\* validate has not been called yet
Pending == [kind |-> "pending", exc |-> None, val |-> NoneValue]

\* ParameterValidator.validate(value)
ParameterValidator_validate ==
    /\ outcome = Pending
    /\ validator.class = "ParameterValidator"
    /\ LET c == int(value)
       IN  outcome' =
              IF c.exc = None
              THEN IF validator.min_val <= c.val /\ c.val <= validator.max_val
                   THEN Returns(IntValue(c.val))
                   ELSE Raises("ValueError")
              ELSE IF c.exc \in {"ValueError", "TypeError"}
                   THEN Raises("ValueError")
                   ELSE Raises(c.exc)
    /\ UNCHANGED <<scanVars, strategy, stats, results, result, epc, platform, detector,
                   validator, value>>

\* ChoiceValidator.validate(value)
ChoiceValidator_validate ==
    /\ outcome = Pending
    /\ validator.class = "ChoiceValidator"
    /\ LET c == in_choices(value, validator.choices)
       IN  outcome' =
              IF c.exc # None THEN Raises(c.exc)
              ELSE IF ~c.val THEN Raises("ValueError")
              ELSE Returns(value)
    /\ UNCHANGED <<scanVars, strategy, stats, results, result, epc, platform, detector,
                   validator, value>>

\* the characters the strings are made of
StrAlphabet == {"0", "1", "2", "5", " ", "+", "-", "_", "a", "."}

StrInputs == UNION {[1..n -> StrAlphabet] : n \in 0..MaxStrLen}

\* integers around every range limit and every choice
IntInputs == {-1, 0, 1, 2, 3, 4, 50, 51, 200, 201, 500, 501}

\* twice the floats passed: -0.5, 0.5, 1.0, 1.5, 2.0, 3.5, 50.5, 200.5, 201.0
FloatInputs == {-1, 1, 2, 3, 4, 7, 101, 401, 402}

Values ==
    {IntValue(n) : n \in IntInputs}
    \cup {BoolValue(b) : b \in BOOLEAN}
    \cup {StrValue(s) : s \in StrInputs}
    \cup {FloatValue(k) : k \in FloatInputs}
    \cup {NanValue, InfValue(1), InfValue(-1), NoneValue, ListValue}

InitValidators ==
    /\ ScanIdle /\ OrchestratorIdle
    /\ validator \in VALIDATORS
    /\ value \in Values
    /\ outcome = Pending

NextValidators ==
    \/ ParameterValidator_validate
    \/ ChoiceValidator_validate

SpecValidators == InitValidators /\ [][NextValidators]_vars

InitWith(f) ==
    /\ fx = f
    /\ data = StoredBytes(f)
    /\ prefixed = f.prefixed
    /\ renames = 0
    /\ pc = InitialPc(f)
    /\ pos = 0
    /\ ops = <<>>
    /\ exc = None
    /\ version = 0
    /\ section_pointers = <<>>
    /\ tile_frame_important = <<>>
    /\ tiles_offset = 0
    /\ max_tiles_x = 0
    /\ max_tiles_y = 0
    /\ x = 0
    /\ y = 0
    /\ sandstone_coords = <<>>
    /\ tile_counts = [t \in {} |-> 0]
    /\ decoded = <<>>
    /\ highest = <<>>
    /\ retval = None
    /\ coords = <<>>
    /\ received = FALSE
    /\ run = 1
    /\ first = <<>>

Init == OrchestratorIdle /\ ValidatorIdle /\ \E f \in Fixtures : InitWith(f)

Next ==
    \/ PW_ReadVersion
    \/ PW_ReadMagic
    \/ PW_ReadSectionPointers
    \/ PW_ReadFrameImportant
    \/ PW_JumpToTiles
    \/ PW_JumpToHeader
    \/ PW_ReadHeader
    \/ PW_BackToTiles
    \/ PW_DecodeCell
    \/ PW_NextColumn
    \/ PW_Return
    \/ Main
    \/ check_and_rename_world
    \/ AT_ReadVersion
    \/ AT_ReadMagic
    \/ AT_ReadSectionPointers
    \/ AT_ReadFrameImportant
    \/ AT_JumpToHeader
    \/ AT_ReadHeader
    \/ AT_JumpToTiles
    \/ AT_DecodeCell
    \/ AT_NextColumn
    \/ AT_Return
    \/ Analyze
    \/ Rerun

Spec == Init /\ [][Next]_vars

InitId ==
    OrchestratorIdle /\ ValidatorIdle /\ \E f \in IdFixtures \cup ScenarioRuns : InitWith(f)

SpecId == InitId /\ [][Next]_vars

\* one raw record in a 1 x 1 grid: activeFlags with every combination of bits 0-2, with
\* liquid and with both run-length modes; behind it bytes that are flag bytes when the
\* cascade reaches them and an identifier, a wall or a liquid byte when it does not
\* (33 = bits 0 and 5, 96 = bits 5 and 6, 97 = bits 0, 5 and 6, 24/25 = both colour bits
\* without/with bit 0, 151 = the target); the frame-important list holds the low
\* bytes alone or the identifiers with a high byte (21 + 256 * 1, 21 + 256 * 21)
FlagFixtures ==
    {[BaseFx EXCEPT !.entry = e, !.fi = fi,
                    !.cells = << <<"raw", af, tf, tf2, tf3, 21, hi>> >>] :
        e \in {"correct_parser", "analyze_tiles"},
        fi \in {<<21, 33>>, <<277, 5397>>},
        af \in {0, 1, 2, 3, 4, 5, 6, 7, 11, 67, 131},
        tf \in {0, 1, 33, 96, 97, 151},
        tf2 \in {0, 1, 21, 24, 25},
        tf3 \in {0, 21},
        hi \in {0, 1}}

\* one raw record without tile, wall or liquid under each run-length mode, followed by
\* the smallest and the largest count bytes
RunFixtures ==
    {[BaseFx EXCEPT !.entry = e,
                    !.cells = << <<"raw", af, b1, b2, 0, 0, 0>> >>] :
        e \in {"correct_parser", "analyze_tiles"},
        af \in {0, 64, 128, 192},
        b1 \in {0, 1, 255},
        b2 \in {0, 1, 255}}

InitFlags ==
    /\ OrchestratorIdle /\ ValidatorIdle
    /\ \E f \in FlagFixtures \cup RunFixtures \cup ScenarioRuns : InitWith(f)

SpecFlags == InitFlags /\ [][Next]_vars


(***************************************************************************)
(* What a fixture says about its own file: where each of its cell records  *)
(* lies and which grid cells it covers.  None of this is read by the code. *)
(***************************************************************************)
RECURSIVE LayoutFrom(_, _, _, _, _, _)
LayoutFrom(cs, fi, h, col, row, off) ==
    IF cs = <<>> THEN <<>>
    ELSE LET c    == CellOf(Head(cs))
             stop == off + Len(EncodeCell(c, fi))
             full == row + CellRun(c) >= h
         IN  << [x |-> col, y |-> row, id |-> CellId(c), run |-> CellRun(c),
                 start |-> off, end |-> stop] >>
             \o LayoutFrom(Tail(cs), fi, h, IF full THEN col + 1 ELSE col,
                           IF full THEN 0 ELSE row + CellRun(c), stop)

Layout(f) == LayoutFrom(f.cells, f.fi, f.height, 0, 0, TilesStart(f))

\* the header is as the format wants it and the pointers are the true offsets
GoodHeader(f) ==
    /\ f.version >= 88
    /\ f.version >= 135 => f.magicEnd < 128
    /\ f.nsec >= 2
    /\ f.hdrOff = "ok" /\ f.tileOff = "ok"

\* the records fill width columns of exactly height rows each
ValidStream(f) ==
    /\ f.width > 0 /\ f.height > 0 /\ f.cells # <<>>
    /\ LET L == Layout(f)
       IN  /\ \A i \in 1..Len(L) : L[i].y + L[i].run <= f.height
           /\ L[Len(L)].x = f.width - 1
           /\ L[Len(L)].y + L[Len(L)].run = f.height

WellFormed(f) == f.cut < 0 /\ GoodHeader(f) /\ ValidStream(f)

\* a well-formed file cut strictly inside one of its cell records
CutMidRecord(f) ==
    /\ f.cut >= 0
    /\ GoodHeader(f) /\ ValidStream(f)
    /\ LET L == Layout(f)
       IN  \E i \in 1..Len(L) : L[i].start < f.cut /\ f.cut < L[i].end

\* the grid cells of the fixture that hold the target, column by column
RECURSIVE MatchesOf(_)
MatchesOf(L) ==
    IF L = <<>> THEN <<>>
    ELSE (IF Head(L).id = SANDSTONE_BRICK
          THEN [i \in 1..Head(L).run |-> <<Head(L).x, Head(L).y + i - 1>>]
          ELSE <<>>) \o MatchesOf(Tail(L))

\* offset of the first record of column col; the end of the stream past the last one
ColumnStart(f, col) ==
    LET L == Layout(f)
    IN  IF \E i \in 1..Len(L) : L[i].x = col /\ L[i].y = 0
        THEN L[CHOOSE i \in 1..Len(L) : L[i].x = col /\ L[i].y = 0].start
        ELSE FullLength(f)

ParseWorldRuns == fx.entry \in {"correct_parser", "check_and_rename"}

RECURSIVE SumRuns(_, _)
SumRuns(ds, col) ==
    IF ds = <<>> THEN 0
    ELSE (IF Head(ds).x = col THEN Head(ds).num_tiles ELSE 0) + SumRuns(Tail(ds), col)

(***************************************************************************)
(* C1: on a well-formed file parse_world returns every grid coordinate     *)
(* whose tile id is 151 exactly once: a matching record at (column, row)   *)
(* of run length n contributes (column, row + i), 0 <= i < n, and nothing  *)
(* else, so the length of the list is the number of matching grid cells.   *)
(***************************************************************************)
C1_EachMatchOnce ==
    (ParseWorldRuns /\ received /\ WellFormed(fx)) => coords = MatchesOf(Layout(fx))

(***************************************************************************)
(* C2: on a valid tile stream every decoded record is the record the       *)
(* stream holds at that place (same column, row, first and last byte, run  *)
(* length); when a column ends its run lengths sum to exactly the height   *)
(* and the cursor stands on the first byte of the next column (the end of  *)
(* the stream after the last column).                                      *)
(***************************************************************************)
C2_ColumnsExact ==
    (pc \in {"pw_tiles", "at_tiles", "pw_returned", "at_returned"} /\ WellFormed(fx)) =>
        LET L == Layout(fx)
        IN  /\ \A i \in 1..Len(decoded) :
                  /\ i <= Len(L)
                  /\ decoded[i].x = L[i].x
                  /\ decoded[i].y = L[i].y
                  /\ decoded[i].start = L[i].start
                  /\ decoded[i].end = L[i].end
                  /\ decoded[i].num_tiles = L[i].run
            /\ (x < max_tiles_x /\ y >= max_tiles_y) =>
                  /\ y = max_tiles_y
                  /\ SumRuns(decoded, x) = fx.height
                  /\ pos = ColumnStart(fx, x + 1)
            /\ x >= max_tiles_x => pos = FullLength(fx)

C2_Witness ==
    /\ WellFormed(fx) /\ fx.width >= 2 /\ fx.height >= 2
    /\ pc = "pw_tiles" /\ x = 1 /\ y >= max_tiles_y
    /\ \E i \in 1..Len(decoded) : decoded[i].x = 1 /\ decoded[i].y > 0
    /\ \E i \in 1..Len(decoded) : decoded[i].end - decoded[i].start > 8

(***************************************************************************)
(* C3: when a well-formed file is cut strictly inside a cell record,       *)
(* parse_world raises struct.error and hands no list to its caller;        *)
(* check_and_rename_world then returns False and renames nothing.          *)
(***************************************************************************)
C3_TruncatedFails ==
    (ParseWorldRuns /\ CutMidRecord(fx)) =>
        /\ ~received /\ coords = <<>> /\ highest = <<>>
        /\ pc # "pw_returned"
        /\ renames = 0 /\ prefixed = fx.prefixed
        /\ pc \in {"pw_raised", "done"} => exc = StructError
        /\ (pc = "done" /\ fx.entry = "check_and_rename") => retval = "False"

C3_Witness ==
    /\ fx.entry = "check_and_rename" /\ CutMidRecord(fx)
    /\ pc = "done" /\ retval = "False" /\ exc = StructError
    /\ sandstone_coords # <<>>

(***************************************************************************)
(* C4: a version below 88 makes parse_world raise the version error with   *)
(* the 4-byte read of the version as the only access to the file: no seek  *)
(* and no other read comes before the failure.                             *)
(***************************************************************************)
C4_VersionFirst ==
    (ParseWorldRuns /\ fx.version < 88 /\ Len(data) >= 4 /\ pc # "pw_version") =>
        /\ exc = VersionError
        /\ ops = << [op |-> "read", at |-> 0, n |-> 4, got |-> 4, raised |-> FALSE] >>
        /\ pc \in {"pw_raised", "done"}
        /\ ~received /\ decoded = <<>>

C4_Witness ==
    /\ ParseWorldRuns /\ fx.version = 87 /\ pc = "done" /\ exc = VersionError

(***************************************************************************)
(* C5: the caller's highest point is absent exactly when the list is       *)
(* empty; otherwise it is an element of the list with the least row, the   *)
(* first such element of the list, and the one of them with the least      *)
(* column.                                                                 *)
(***************************************************************************)
C5_Extremal ==
    (ParseWorldRuns /\ pc = "done" /\ received) =>
        /\ highest = <<>> <=> coords = <<>>
        /\ coords # <<>> =>
              \E i \in 1..Len(coords) :
                 /\ coords[i] = highest
                 /\ \A j \in 1..Len(coords) : coords[j][2] >= highest[2]
                 /\ \A j \in 1..(i - 1) : coords[j][2] > highest[2]
                 /\ \A j \in 1..Len(coords) :
                       coords[j][2] = highest[2] => coords[j][1] >= highest[1]

C5_Witness ==
    /\ ParseWorldRuns /\ pc = "done" /\ received
    /\ \E i, j \in 1..Len(coords) :
          /\ coords[i][1] < coords[j][1] /\ coords[i][2] = coords[j][2]
          /\ coords[i] = highest
    /\ \E i \in 1..Len(coords) : coords[i][2] > highest[2]

FrameLen(id) == IF InSeq(id, fx.fi) THEN 4 ELSE 0

\* a whole file of one column whose records each cover one row
IdColumn(f) ==
    /\ GoodHeader(f) /\ f.cut < 0
    /\ f.width = 1 /\ f.height = Len(f.cells)
    /\ \A k \in 1..Len(f.cells) : f.cells[k][1] \in {"ext", "tile", "full"}

(***************************************************************************)
(* C6: for every low byte L and high byte H in 0..255, a record whose      *)
(* tile-flags byte has bit 5 set decodes to the id L + 256 * H and ends    *)
(* after the high byte (and what follows it); a record without bit 5, with *)
(* or without a tile-flags byte, decodes to the id L and consumes no high  *)
(* byte.                                                                   *)
(***************************************************************************)
C6_TileIdBytes ==
    (ParseWorldRuns /\ IdColumn(fx)) =>
        \A i \in 1..Len(decoded) :
           /\ i <= Len(fx.cells)
           /\ LET d    == decoded[i]
                  code == fx.cells[i]
                  at   == d.start
              IN  /\ code[1] = "ext" =>
                        /\ BitAnd(data[at + 2], 32) = 32
                        /\ data[at + 3] = code[2] /\ data[at + 4] = code[3]
                        /\ d.tile_type = code[2] + 256 * code[3]
                        /\ d.end = at + 5 + FrameLen(d.tile_type)
                  /\ code[1] = "tile" =>
                        /\ BitAnd(data[at + 1], 1) = 0
                        /\ data[at + 2] = code[2]
                        /\ d.tile_type = code[2]
                        /\ d.end = at + 2 + FrameLen(d.tile_type)
                  /\ code[1] = "full" =>
                        /\ BitAnd(data[at + 2], 32) = 0
                        /\ data[at + 5] = code[2]
                        /\ d.tile_type = code[2]
                        /\ d.end = at + 10 + FrameLen(d.tile_type)

C6_Witness ==
    /\ fx \in IdFixtures /\ pc = "done" /\ received /\ Len(decoded) = 16
    /\ decoded[16].tile_type = 65535
    /\ decoded[1].tile_type = 255 + 256 * 240

InGrid(c) == c[1] >= 0 /\ c[1] < max_tiles_x /\ c[2] >= 0 /\ c[2] < max_tiles_y

(***************************************************************************)
(* C7: rows never cross columns in parse_world.  Every coordinate it       *)
(* collects lies within the grid; a record whose run reaches or passes the *)
(* end of its column is followed by a record at (column + 1, 0) that       *)
(* starts on the byte right after it.                                      *)
(***************************************************************************)
C7_RowsStayInColumn ==
    (ParseWorldRuns /\ pc \in {"pw_tiles", "pw_returned", "pw_raised", "done"}) =>
        /\ \A i \in 1..Len(sandstone_coords) : InGrid(sandstone_coords[i])
        /\ \A i \in 1..Len(coords) : InGrid(coords[i])
        /\ \A i \in 1..(Len(decoded) - 1) :
              IF decoded[i].y + decoded[i].num_tiles >= max_tiles_y
              THEN /\ decoded[i + 1].x = decoded[i].x + 1
                   /\ decoded[i + 1].y = 0
                   /\ decoded[i + 1].start = decoded[i].end
              ELSE /\ decoded[i + 1].x = decoded[i].x
                   /\ decoded[i + 1].y = decoded[i].y + decoded[i].num_tiles
                   /\ decoded[i + 1].start = decoded[i].end

C7_Witness ==
    /\ ParseWorldRuns /\ pc = "pw_returned"
    /\ \E i \in 1..(Len(decoded) - 1) :
          /\ decoded[i].tile_type = SANDSTONE_BRICK
          /\ decoded[i].y + decoded[i].num_tiles > max_tiles_y
          /\ decoded[i + 1].tile_type = SANDSTONE_BRICK
          /\ <<decoded[i].x, max_tiles_y - 1>> \in {coords[j] : j \in 1..Len(coords)}

(***************************************************************************)
(* C8: a second scan of the same bytes ends as the first one did: the same *)
(* exception or the same returned list, highest point and tile counts.     *)
(***************************************************************************)
C8_Deterministic ==
    (run = 2 /\ pc = "done") => first = <<Outcome>>

C8_Witness ==
    /\ run = 2 /\ pc = "done" /\ ParseWorldRuns
    /\ received /\ Len(coords) >= 2 /\ first = <<Outcome>>

(***************************************************************************)
(* C9: every read of parse_world that finds fewer bytes than it asked for  *)
(* raises; none hands back a shortened value.                              *)
(***************************************************************************)
C9_NoShortRead ==
    ParseWorldRuns =>
        \A i \in 1..Len(ops) :
           (ops[i].op = "read" /\ ops[i].got < ops[i].n) => ops[i].raised

InFile(mode) == mode = "ok"

BadSections(f) ==
    /\ f.version >= 88
    /\ f.version >= 135 => f.magicEnd < 128
    /\ f.cut < 0
    /\ \/ f.nsec < 2
       \/ ~InFile(f.hdrOff)
       \/ ~InFile(f.tileOff)

(***************************************************************************)
(* C10: a file with fewer than two section pointers, or whose header or    *)
(* tile pointer lies outside the file, makes parse_world raise the section *)
(* error; it decodes no cell record and returns no list.                   *)
(***************************************************************************)
C10_MalformedHeader ==
    (ParseWorldRuns /\ BadSections(fx)) =>
        /\ ~received /\ decoded = <<>> /\ pc # "pw_returned"
        /\ pc \in {"pw_raised", "done"} => exc = SectionError

(***************************************************************************)
(* C11: whenever parse_world has read the header and decodes tiles, it     *)
(* holds at least two section pointers, width > 0, height > 0 and a        *)
(* version of at least 88; a file whose header declares a width or height  *)
(* of 0 or less is never answered with a list.                             *)
(***************************************************************************)
C11_HeaderInvariant ==
    (ParseWorldRuns /\ pc \in {"pw_tiles", "pw_returned"}) =>
        /\ Len(section_pointers) >= 2
        /\ version >= MinVersion
        /\ max_tiles_x > 0
        /\ max_tiles_y > 0
        /\ pc # "pw_returned"
              \/ (fx.width > 0 /\ fx.height > 0)

(***************************************************************************)
(* C12: at every point of the scan the match list of parse_world is in     *)
(* strict discovery order: of two entries the earlier one has the smaller  *)
(* column, or the same column and the smaller row.                         *)
(***************************************************************************)
C12_DiscoveryOrder ==
    (ParseWorldRuns /\ pc \in {"pw_tiles", "pw_returned"}) =>
        \A i, j \in 1..Len(sandstone_coords) :
           i < j =>
              \/ sandstone_coords[i][1] < sandstone_coords[j][1]
              \/ /\ sandstone_coords[i][1] = sandstone_coords[j][1]
                 /\ sandstone_coords[i][2] < sandstone_coords[j][2]


(***************************************************************************)
(* C13: execute_strategy hands a world to platform.delete_world only when  *)
(* the world was generated successfully, detection ran and found no        *)
(* pyramid, and the strategy's should_delete_non_pyramid() is true (fixed  *)
(* count with delete_mode 1, or target).  A world with a pyramid is never  *)
(* deleted, and nothing is deleted under fixed count with delete_mode 0 or *)
(* under the basic strategy.                                               *)
(***************************************************************************)
C13_DeleteOnlyNonPyramid ==
    epc \in {"loop", "returned"} =>
        /\ \A i \in 1..Len(platform.delete_world) :
              LET r == platform.delete_world[i]
              IN  /\ r.success
                  /\ ~r.pyramid_detection.is_none
                  /\ ~r.pyramid_detection.found
                  /\ \/ strategy.kind = "fixed" /\ strategy.delete_mode = 1
                     \/ strategy.kind = "target"
        /\ \A i \in 1..Len(results) : ~results[i].deleted
        /\ (\/ strategy.kind = "fixed" /\ strategy.delete_mode = 0
            \/ strategy.kind = "basic") => platform.delete_world = <<>>
        /\ stats.worlds_deleted = Len(platform.delete_world)

\* a fixed-count run with delete_mode 1 has deleted a world and kept a pyramid world
C13_Witness ==
    /\ epc = "returned"
    /\ strategy.kind = "fixed"
    /\ strategy.delete_mode = 1
    /\ Len(platform.delete_world) >= 1
    /\ \E i \in 1..Len(results) : has_pyramid(results[i])

(***************************************************************************)
(* C14: under FixedCountStrategy(n) total_generated never exceeds n, and   *)
(* when execute_strategy returns it equals n, however many generation      *)
(* attempts failed on the way.                                             *)
(***************************************************************************)
C14_FixedCountExact ==
    (epc \in {"loop", "returned"} /\ strategy.kind = "fixed") =>
        /\ stats.total_generated <= strategy.total_count
        /\ epc = "returned" => stats.total_generated = strategy.total_count

\* a fixed-count run returns after attempts that failed
C14_Witness ==
    /\ epc = "returned"
    /\ strategy.kind = "fixed"
    /\ strategy.total_count >= 2
    /\ platform.generate_world > strategy.total_count

(***************************************************************************)
(* C15: under TargetPyramidStrategy(t, m) platform.generate_world is       *)
(* called at most m times, successful or not, and on return pyramids_found *)
(* is at most t.                                                           *)
(***************************************************************************)
C15_AttemptsBounded ==
    (epc \in {"loop", "returned"} /\ strategy.kind = "target") =>
        /\ platform.generate_world <= strategy.max_attempts
        /\ epc = "returned" => stats.pyramids_found <= strategy.pyramid_target

(***************************************************************************)
(* C16: under BasicGenerationStrategy detector.detect is never called,     *)
(* every result has pyramid_detection None, and pyramids_found stays 0.    *)
(***************************************************************************)
C16_BasicNeverDetects ==
    (epc \in {"loop", "returned"} /\ strategy.kind = "basic") =>
        /\ detector.detect = 0
        /\ \A i \in 1..Len(results) : results[i].pyramid_detection.is_none
        /\ stats.pyramids_found = 0

(***************************************************************************)
(* C17: check_and_rename_world renames the file (prefix "1 ") exactly when *)
(* parsing succeeds with at least one match and the name is not already    *)
(* prefixed, and returns True exactly when at least one match was found;   *)
(* on a parse error or without a match it returns False and the file keeps *)
(* its name; a file already prefixed is never renamed again.               *)
(***************************************************************************)
C17_RenameIffMatch ==
    (fx.entry = "check_and_rename" /\ pc = "done") =>
        /\ retval = "True" <=> (received /\ coords # <<>>)
        /\ prefixed <=> (fx.prefixed \/ (received /\ coords # <<>>))
        /\ fx.prefixed => renames = 0

\* int(value) succeeds with a result inside the validator's range
ConvertsInRange ==
    /\ int(value).exc = None
    /\ validator.min_val <= int(value).val
    /\ int(value).val <= validator.max_val

\* the value equals one of the validator's choice keys (1, True and 1.0 are equal)
IsChoiceKey ==
    \/ value.type \in {"int", "bool"} /\ value.n \in validator.choices
    \/ /\ value.type = "float"
       /\ value.n % 2 = 0
       /\ (value.n \div 2) \in validator.choices

(***************************************************************************)
(* C18: ParameterValidator.validate(v) returns int(v) when v converts to   *)
(* an integer inside [min_val, max_val] (limits included) and raises       *)
(* ValueError for every other input; ChoiceValidator.validate(v) returns v *)
(* when v is a key of choices and raises ValueError otherwise.             *)
(***************************************************************************)
C18_ValidateOrValueError ==
    (epc = "idle" /\ pc = "done" /\ outcome # Pending) =>
        /\ validator.class = "ParameterValidator" =>
              outcome = IF ConvertsInRange
                        THEN Returns(IntValue(int(value).val))
                        ELSE Raises("ValueError")
        /\ validator.class = "ChoiceValidator" =>
              outcome = IF IsChoiceKey THEN Returns(value)
                        ELSE Raises("ValueError")

\* byte k of the stored file (offsets count from 0); 0 past its end
RawAt(k) == IF k < Len(data) THEN data[k + 1] ELSE 0

Bit(v, mask) == BitAnd(v, mask) # 0

One(b) == IF b THEN 1 ELSE 0

\* bytes of the wall, liquid, colour and run-length fields under the given flags
RestLength(a, tf, tf2) ==
    One(Bit(a, 4)) + One(Bit(a, 4) /\ Bit(tf, 64))
    + One(BitAnd(ShiftRight(a, 3), 3) # 0)
    + One(Bit(tf2, 8)) + One(Bit(tf2, 16))
    + (IF BitAnd(ShiftRight(a, 6), 3) = 1 THEN 1
       ELSE IF BitAnd(ShiftRight(a, 6), 3) = 2 THEN 2 ELSE 0)

\* bytes of the identifier and its frame under the given flags
TileLength(a, tf, id) ==
    IF Bit(a, 2) THEN 1 + One(Bit(tf, 32)) + FrameLen(id) ELSE 0

(***************************************************************************)
(* C19: the flag bytes of a record form a cascade.  tileFlags is the byte  *)
(* after activeFlags only if bit 0 of activeFlags is set, tileFlags2 the   *)
(* next only if tileFlags was read with bit 0 set, tileFlags3 likewise; a  *)
(* flag byte that was not read is 0 in every later test, so the record has *)
(* 1 to 4 flag bytes and, with bit 0 of activeFlags clear, no extended     *)
(* identifier, wall extension or colour byte.                              *)
(***************************************************************************)
C19_FlagCascade ==
    \A i \in 1..Len(decoded) :
       LET d   == decoded[i]
           a   == RawAt(d.start)
           r1  == Bit(a, 1)
           tf  == IF r1 THEN RawAt(d.start + 1) ELSE 0
           r2  == r1 /\ Bit(tf, 1)
           tf2 == IF r2 THEN RawAt(d.start + 2) ELSE 0
           r3  == r2 /\ Bit(tf2, 1)
           tf3 == IF r3 THEN RawAt(d.start + 3) ELSE 0
       IN  /\ d.active_flags = a
           /\ d.tile_flags = tf
           /\ d.tile_flags2 = tf2
           /\ d.tile_flags3 = tf3
           /\ d.end - d.start =
                 1 + One(r1) + One(r2) + One(r3)
                 + TileLength(a, tf, d.tile_type) + RestLength(a, tf, tf2)
           /\ ~r1 => d.end - d.start =
                        1 + (IF Bit(a, 2) THEN 1 + FrameLen(RawAt(d.start + 1)) ELSE 0)
                        + One(Bit(a, 4)) + One(BitAnd(ShiftRight(a, 3), 3) # 0)
                        + (IF BitAnd(ShiftRight(a, 6), 3) = 1 THEN 1
                           ELSE IF BitAnd(ShiftRight(a, 6), 3) = 2 THEN 2 ELSE 0)

\* a record with tile and wall but bit 0 of activeFlags clear, followed by a byte
\* whose bits 0, 5 and 6 are set: three bytes, the second one the identifier
C19_Witness ==
    \E i \in 1..Len(decoded) :
       /\ RawAt(decoded[i].start) = 6
       /\ RawAt(decoded[i].start + 1) = 97
       /\ decoded[i].tile_type = 97
       /\ decoded[i].end - decoded[i].start = 3

(***************************************************************************)
(* C20: with the tile-present bit (bit 1 of activeFlags) set, the four     *)
(* frame bytes after the identifier are consumed exactly when the          *)
(* reconstructed tileId is in the header's frame-important list; with the  *)
(* bit clear there is no tileId, the record matches nothing, and no        *)
(* identifier, extension or frame byte is consumed, bit 5 of tileFlags or  *)
(* not.                                                                    *)
(***************************************************************************)
C20_FrameIffImportant ==
    \A i \in 1..Len(decoded) :
       LET d      == decoded[i]
           nflags == 1 + One(Bit(d.active_flags, 1)) + One(Bit(d.tile_flags, 1))
                     + One(Bit(d.tile_flags2, 1))
           rest   == RestLength(d.active_flags, d.tile_flags, d.tile_flags2)
           lo     == RawAt(d.start + nflags)
           ext    == Bit(d.tile_flags, 32)
           id     == IF ext THEN lo + 256 * RawAt(d.start + nflags + 1) ELSE lo
       IN  IF Bit(d.active_flags, 2)
           THEN /\ d.tile_type = id
                /\ d.end - d.start =
                      nflags + 1 + One(ext) + (IF InSeq(id, fx.fi) THEN 4 ELSE 0) + rest
           ELSE /\ d.tile_type = NoTile
                /\ d.end - d.start = nflags + rest
                /\ (ParseWorldRuns /\ pc \in {"pw_tiles", "pw_returned"}) =>
                      \A k \in 1..Len(sandstone_coords) :
                         sandstone_coords[k][1] # d.x
                         \/ sandstone_coords[k][2] < d.y
                         \/ sandstone_coords[k][2] >= d.y + d.num_tiles

\* an extended identifier 21 + 256 * 21 that is frame-important while its low byte is
\* not: flag byte, tileFlags, two identifier bytes, four frame bytes
C20_Witness ==
    /\ fx.fi = <<277, 5397>>
    /\ \E i \in 1..Len(decoded) :
          /\ decoded[i].active_flags = 3
          /\ decoded[i].tile_flags = 96
          /\ decoded[i].tile_type = 5397
          /\ decoded[i].end - decoded[i].start = 8

\* bytes of the run-length field under activeFlags a
RunBytes(a) ==
    IF BitAnd(ShiftRight(a, 6), 3) = 1 THEN 1
    ELSE IF BitAnd(ShiftRight(a, 6), 3) = 2 THEN 2 ELSE 0

\* flag bytes of the decoded record d
FlagBytes(d) ==
    1 + One(Bit(d.active_flags, 1)) + One(Bit(d.tile_flags, 1)) + One(Bit(d.tile_flags2, 1))

(***************************************************************************)
(* C21: between the tile fields and the run-length field a record consumes *)
(* [bit 2 of activeFlags] + [bit 2 of activeFlags and bit 6 of tileFlags]  *)
(* + [liquid bits nonzero] + [bit 3 of tileFlags2] + [bit 4 of tileFlags2] *)
(* bytes; the wall extension is consumed only when the wall byte is.       *)
(***************************************************************************)
C21_WallLiquidColour ==
    \A i \in 1..Len(decoded) :
       LET d == decoded[i]
           a == d.active_flags
       IN  d.end - d.start
             - FlagBytes(d) - TileLength(a, d.tile_flags, d.tile_type) - RunBytes(a)
           = One(Bit(a, 4))
             + One(Bit(a, 4) /\ Bit(d.tile_flags, 64))
             + One(BitAnd(ShiftRight(a, 3), 3) # 0)
             + One(Bit(d.tile_flags2, 8))
             + One(Bit(d.tile_flags2, 16))

\* tileFlags has bit 6 but the record has no wall: flag byte, tileFlags, tileFlags2 and
\* its two colour bytes, nothing else
C21_Witness ==
    \E i \in 1..Len(decoded) :
       /\ decoded[i].active_flags = 1
       /\ decoded[i].tile_flags = 97
       /\ decoded[i].tile_flags2 = 24
       /\ decoded[i].end - decoded[i].start = 5

(***************************************************************************)
(* C22: the run length follows rleMode = (activeFlags >> 6) & 3: mode 0    *)
(* and mode 3 consume no byte and give 1; mode 1 consumes one byte b and   *)
(* gives b + 1; mode 2 consumes two bytes, little-endian w, and gives      *)
(* w + 1.  Every run length is at least 1.                                 *)
(***************************************************************************)
C22_RunLength ==
    \A i \in 1..Len(decoded) :
       LET d    == decoded[i]
           a    == d.active_flags
           mode == BitAnd(ShiftRight(a, 6), 3)
           body == FlagBytes(d) + TileLength(a, d.tile_flags, d.tile_type)
                   + RestLength(a, d.tile_flags, d.tile_flags2) - RunBytes(a)
           at   == d.start + body
       IN  /\ d.num_tiles >= 1
           /\ mode \in {0, 3} => d.end = at /\ d.num_tiles = 1
           /\ mode = 1 => d.end = at + 1 /\ d.num_tiles = RawAt(at) + 1
           /\ mode = 2 => /\ d.end = at + 2
                          /\ d.num_tiles = RawAt(at) + 256 * RawAt(at + 1) + 1

\* the largest two-byte count: bytes 255 255 give a run of 65536
C22_Witness ==
    \E i \in 1..Len(decoded) :
       /\ decoded[i].active_flags = 128
       /\ decoded[i].num_tiles = 65536
       /\ decoded[i].end = decoded[i].start + 3

(***************************************************************************)
(* C23: tile decoding terminates.  Under every header the decode loop has  *)
(* decoded at most width * height records, and when it ends with a result  *)
(* it has gone through exactly width columns; every record moves the row   *)
(* forward by at least 1 and the cursor by at least 1 byte.                *)
(***************************************************************************)
C23_DecodeBounded ==
    (ParseWorldRuns /\ pc \in {"pw_tiles", "pw_returned"}) =>
        /\ Len(decoded) <= max_tiles_x * max_tiles_y
        /\ \A i \in 1..Len(decoded) :
              decoded[i].num_tiles >= 1 /\ decoded[i].end > decoded[i].start
        /\ pc = "pw_returned" => x = max_tiles_x

IsSeek(o) == o.op = "seek"

\* the f.seek calls made so far, in order
Seeks == SelectSeq(ops, IsSeek)

(***************************************************************************)
(* C24: header parsing seeks exactly twice, first to sectionOffsets[0]     *)
(* once the section table and the frame-important table are read, then to  *)
(* sectionOffsets[1] once the width is read; there is no other seek before *)
(* or during tile decoding, which starts at sectionOffsets[1].             *)
(***************************************************************************)
C24_TwoSeeks ==
    (ParseWorldRuns /\ pc \in {"pw_tiles", "pw_returned"}) =>
        /\ Len(Seeks) = 2
        /\ Seeks[1].at = section_pointers[1]
        /\ Seeks[2].at = section_pointers[2]
        /\ decoded # <<>> => decoded[1].start = section_pointers[2]

\* offset at which the section count is expected
SectionCountAt == IF fx.version >= 135 THEN 4 + 7 + 1 + 4 + 8 ELSE 4

(***************************************************************************)
(* C25: for a supported version at or above 135 exactly 20 bytes lie       *)
(* between the version field and the section count, and their values are   *)
(* not interpreted: whatever they hold, the section count is read at       *)
(* offset 24.  Below 135 the section count is read at offset 4.            *)
(***************************************************************************)
C25_MagicOpaque ==
    (/\ fx.cut < 0
     /\ fx.version >= MinVersion
     /\ pc \notin {"pw_version", "pw_magic", "pw_sections",
                   "at_version", "at_magic", "at_sections"}) =>
        \E k \in 1..Len(ops) :
           /\ ops[k].op = "read"
           /\ ops[k].at = SectionCountAt
           /\ ops[k].n = 2
           /\ \A j \in 1..(k - 1) : ops[j].op = "read" /\ ops[j].at < SectionCountAt

(***************************************************************************)
(* C26: execute_strategy deletes a world only when its detection completed *)
(* without error (PyramidDetectionResult.success) and found no pyramid; a  *)
(* detection that ended in an error, reported as found = False with an     *)
(* error_message, never causes a deletion.                                 *)
(***************************************************************************)
C26_NoDeleteOnDetectionError ==
    epc \in {"loop", "returned"} =>
        \A i \in 1..Len(platform.delete_world) :
           /\ ~platform.delete_world[i].pyramid_detection.found
           /\ platform.delete_world[i].pyramid_detection.error_message = ""

(***************************************************************************)
(* C27: a result is marked deleted, counted in worlds_deleted and left out *)
(* of the results only if platform.delete_world returned True for it; when *)
(* delete_world returns False the world is not recorded as deleted and     *)
(* stays in the results.                                                   *)
(***************************************************************************)
C27_DeletedOnlyIfDeleted ==
    epc \in {"loop", "returned"} =>
        \A i \in 1..Len(platform.delete_world) :
           ~platform.delete_returned[i] =>
              /\ ~platform.delete_world[i].deleted
              /\ \E k \in 1..Len(results) :
                    results[k].world_name = platform.delete_world[i].world_name
              /\ stats.worlds_deleted < Len(platform.delete_world)

\* one iteration of the loop keeps every counter from falling, adds at most one world,
\* and changes nothing when generation failed
StatsStep ==
    platform'.generate_world # platform.generate_world =>
        /\ stats'.total_generated \in {stats.total_generated, stats.total_generated + 1}
        /\ stats'.pyramids_found >= stats.pyramids_found
        /\ stats'.worlds_deleted >= stats.worlds_deleted
        /\ ~result'.success => stats' = stats /\ results' = results

StatsConsistent ==
    epc \in {"loop", "returned"} =>
        /\ stats.pyramids_found + stats.worlds_deleted <= stats.total_generated
        /\ Len(stats.pyramid_worlds) = stats.pyramids_found
        /\ Len(results) = stats.total_generated - stats.worlds_deleted

(***************************************************************************)
(* C28: after every iteration of the execute_strategy loop                 *)
(* pyramids_found + worlds_deleted <= total_generated, len(pyramid_worlds) *)
(* = pyramids_found and len(results) = total_generated - worlds_deleted;   *)
(* no counter decreases, total_generated grows by at most 1 per iteration, *)
(* and an iteration whose generation failed changes neither the statistics *)
(* nor the results.                                                        *)
(***************************************************************************)
C28_StatsInvariant == []StatsConsistent /\ [][StatsStep]_vars

\* a failed iteration after a pyramid world was kept and another world deleted
C28_Witness ==
    /\ epc = "loop"
    /\ stats.pyramids_found >= 1
    /\ stats.worlds_deleted >= 1
    /\ ~result.success
====
